---- MODULE Spec2Model ----
(***************************************************************************)
(* Model of the signaling / file-relay server (src/unnamed/part_001):      *)
(* the device registry `devices`, the correlation table `pendingRequests`, *)
(* the browse and download HTTP handlers with their timers, the socket     *)
(* handlers for ftp-list-response and ftp-download-chunk, and the periodic *)
(* cleanup.  Time is Date.now() in milliseconds.                           *)
(***************************************************************************)
EXTENDS Integers, Sequences, FiniteSets, TLC

\* ---------------------------------------------------------------------
\* Program constants (CLEANUP_CONFIG and the two setTimeout literals)
\* ---------------------------------------------------------------------
DEVICE_TTL == 1800000
MONITORED_APPS_TTL == 3600000
PENDING_REQUEST_TIMEOUT == 30000
CLEANUP_INTERVAL == 300000
MAX_DEVICES == 100
MAX_MONITORED_APPS == 50
BROWSE_TIMEOUT == 30000
DOWNLOAD_TIMEOUT == 600000

\* ---------------------------------------------------------------------
\* Bounds of the model
\* ---------------------------------------------------------------------
StartTime == 1000000     \* Date.now() when the server starts
TickStep == 30000        \* granularity of the clock
MaxNow == 1660000        \* the clock stops here
MaxAllocNow == 1030000   \* no new request or registration after this time
MaxRequests == 2         \* HTTP browse/download requests that allocate an id
MaxEvents == 2           \* ftp-list-response / ftp-download-chunk events
RandRange == 2           \* distinct values of the random part of a request id
MaxRegistrations == 3    \* registrations that succeed
Excess == 2              \* records the registry may hold above MAX_DEVICES

\* JavaScript `undefined` for a numeric or reference field that is absent
Undefined == -1

DeviceIds == {"dev-1", "dev-2"}
SocketIds == {"sock-A", "sock-B"}
NullSocket == "null"

\* payloads a device may put in an ftp-list-response
FilesSet == {"files-1", "files-2"}
\* error field of a device event: "" is the falsy "no error"
ErrorSet == {"", "EACCES"}

\* A base64 text is a sequence of characters; a character is its index in
\* the base64 alphabet (0..63) or Pad for '='.
Pad == 64
\* "" , "AA==" , "QkI=" , "="
ChunkSet == { <<>>, <<0, 0, Pad, Pad>>, <<16, 36, 8, Pad>>, <<Pad>> }

\* Buffer.from(chunk, 'base64'): decoding stops at the first '='; every four
\* characters give three bytes, a trailing pair one byte, a trailing triple
\* two bytes, a single trailing character nothing.
RECURSIVE DecodeSextets(_)
DecodeSextets(s) ==
    IF Len(s) >= 4
    THEN << s[1] * 4 + (s[2] \div 16),
            (s[2] % 16) * 16 + (s[3] \div 4),
            (s[3] % 4) * 64 + s[4] >> \o DecodeSextets(SubSeq(s, 5, Len(s)))
    ELSE IF Len(s) = 3
    THEN << s[1] * 4 + (s[2] \div 16), (s[2] % 16) * 16 + (s[3] \div 4) >>
    ELSE IF Len(s) = 2
    THEN << s[1] * 4 + (s[2] \div 16) >>
    ELSE << >>

RECURSIVE UpToPad(_)
UpToPad(s) ==
    IF s = << >> THEN << >>
    ELSE IF Head(s) = Pad THEN << >>
    ELSE <<Head(s)>> \o UpToPad(Tail(s))

BufferFromBase64(chunk) == DecodeSextets(UpToPad(chunk))

VARIABLES
    now,              \* Date.now()
    sockets,          \* the connected socket.io sockets
    socketDeviceId,   \* socket.deviceId of every socket ("" when unset)
    devices,          \* the Map `devices`, as the sequence of its values in insertion order
    pendingRequests,  \* the Map `pendingRequests`: request id -> entry
    calls,            \* the HTTP browse/download requests that allocated an id, in order
    nextCleanup,      \* when the setInterval of runPeriodicCleanup is next due
    events,           \* number of ftp-list-response / ftp-download-chunk events so far
    outbox,           \* the messages emitted by the last handler: addressee, event and
                      \* what they carry (files and chunks copied from the input are left out)
    monitoredApps,    \* the Map `monitoredApps`, as the sequence of its entries in insertion order
    closedSockets,    \* the sockets that have disconnected (a socket id is never reused)
    crashed,          \* an exception escaped a handler (uncaught: the process is gone)
    registrations,    \* the registrations that succeeded so far, in order: the
                      \* deviceId given to the registrant and the handle stored
    uploads           \* the uploads of the tus server: upload id -> its metadata,
                      \* where its file is and how far onUploadFinish has come

vars == << now, sockets, socketDeviceId, devices, pendingRequests, calls,
           nextCleanup, events, outbox, monitoredApps, closedSockets, crashed,
           registrations, uploads >>

\* ---------------------------------------------------------------------
\* The registry Map
\* ---------------------------------------------------------------------
\* an entry of the Map is the record stored, with the key it was stored
\* under in its `key` field
DeviceKeys(devs) == { devs[i].key : i \in 1..Len(devs) }

HasDevice(devs, deviceId) == deviceId \in DeviceKeys(devs)

GetDevice(devs, deviceId) ==
    devs[CHOOSE i \in 1..Len(devs) : devs[i].key = deviceId]

\* MapSet adding a second record when the key exists
MapSet_AlwaysAppend(devs, rec) == Append(devs, rec)

\* Map.set: an existing key keeps its position, a new key goes last
MapSet(devs, rec) ==
    IF HasDevice(devs, rec.key)
    THEN [i \in 1..Len(devs) |-> IF devs[i].key = rec.key THEN rec ELSE devs[i]]
    ELSE Append(devs, rec)

\* Map.delete
MapDelete(devs, deviceId) == SelectSeq(devs, LAMBDA d : d.key # deviceId)

DeviceList(devs) ==
    [i \in 1..Len(devs) |->
        [id |-> devs[i].id, name |-> devs[i].name,
         type |-> devs[i].type, status |-> devs[i].status]]

broadcastDeviceList(devs) ==
    [to |-> "*", event |-> "devices", devices |-> DeviceList(devs)]

\* ---------------------------------------------------------------------
\* Request ids, table entries, HTTP responses
\* ---------------------------------------------------------------------
\* `req_${Date.now()}_${Math.random().toString(36).substr(2, 9)}`
generateRequestId(t, rnd) == << t, rnd >>

\* an id no request was ever given
UnknownId == << 0, 0 >>

\* the entry stored by /api/ftp/browse: { resolve, reject, timestamp }
BrowseEntry(r, t) ==
    [resolve |-> r, reject |-> r, timestamp |-> t,
     response |-> Undefined, startTime |-> Undefined, timeoutId |-> Undefined,
     pos |-> 0]

\* the entry stored by /api/ftp/download: { response, startTime, timeoutId }
DownloadEntry(r, t) ==
    [resolve |-> Undefined, reject |-> Undefined, timestamp |-> Undefined,
     response |-> r, startTime |-> t, timeoutId |-> r,
     pos |-> 0]

\* no reaction of the promise is queued
NoReaction == [seq |-> 0, from |-> ""]

\* an HTTP call: its response, its timer and, for a browse, responsePromise
\* and the position of the async handler (`at`): suspended at
\* `await responsePromise` until the promise reaction has run
NewCall(kind, requestId, deviceId, socketId, due) ==
    [kind |-> kind, requestId |-> requestId, deviceId |-> deviceId, to |-> socketId,
     promise |-> IF kind = "browse" THEN "pending" ELSE "none",
     value |-> "",
     at |-> IF kind = "browse" THEN "await" ELSE "returned",
     reaction |-> NoReaction,
     headersSent |-> FALSE, statusCode |-> 0, json |-> "", body |-> << >>,
     ended |-> 0, writes |-> 0,
     timer |-> "armed", due |-> due,
     fed |-> << >>]

\* res.status(code).json(payload): sends the headers and the body, ends the response
ResJson(c, code, payload) ==
    [c EXCEPT !.headersSent = TRUE, !.statusCode = code, !.json = payload,
              !.ended = @ + 1]

\* ResWrite putting the new bytes in front of the body
ResWrite_Prepend(c, buffer) ==
    [c EXCEPT !.headersSent = TRUE,
              !.statusCode = IF c.headersSent THEN @ ELSE 200,
              !.body = IF c.ended > 0 THEN @ ELSE buffer \o @,
              !.writes = @ + 1]

\* res.write(buffer): the first write sends the headers (status 200)
ResWrite(c, buffer) ==
    [c EXCEPT !.headersSent = TRUE,
              !.statusCode = IF c.headersSent THEN @ ELSE 200,
              !.body = IF c.ended > 0 THEN @ ELSE @ \o buffer,
              !.writes = @ + 1]

\* res.end()
ResEnd(c) ==
    [c EXCEPT !.headersSent = TRUE,
              !.statusCode = IF c.headersSent THEN @ ELSE 200,
              !.ended = @ + 1]

\* the calls whose promise is settled and whose handler has not resumed yet:
\* the promise reactions in the microtask queue
ReactionsDue(cs) ==
    { r \in 1..Len(cs) : cs[r].at = "await" /\ cs[r].promise # "pending" }

\* the reaction a callback of kind `from` ("event" for a socket event handler,
\* "timer" for a setTimeout or setInterval callback) queues when it settles a
\* promise of cs: it goes behind the reactions queued so far
Microtask(cs, from) ==
    LET seqs == { cs[r].reaction.seq : r \in 1..Len(cs) } \cup {0}
    IN  [seq |-> 1 + (CHOOSE m \in seqs : \A n \in seqs : n <= m), from |-> from]

\* resolve(files) of the browse promise: the promise is settled and its
\* reaction queued; settling a settled promise does nothing
PromiseResolve(c, files, task) ==
    IF c.promise = "pending"
    THEN [c EXCEPT !.promise = "resolved", !.value = files, !.reaction = task]
    ELSE c

\* reject(new Error(msg))
PromiseReject(c, msg, task) ==
    IF c.promise = "pending"
    THEN [c EXCEPT !.promise = "rejected", !.value = msg, !.reaction = task]
    ELSE c

\* no promise reaction is queued: the event loop may run its next callback
\* (an HTTP request, a timer, a connection)
LoopIdle == ~crashed /\ ReactionsDue(calls) = {}

\* a socket event handler may run: socket.io dispatches the events it has
\* received in process.nextTick callbacks, which run before the promise
\* reactions queued by the event handlers of the same turn; after a timer
\* callback the reactions run at once
SocketTurn ==
    /\ ~crashed
    /\ \A r \in ReactionsDue(calls) : calls[r].reaction.from = "event"

\* clearTimeout(timeoutId)
ClearTimeout(cs, timeoutId) ==
    IF timeoutId = Undefined THEN cs
    ELSE [cs EXCEPT ![timeoutId].timer = IF @ = "armed" THEN "cleared" ELSE @]

\* FailOrEnd deciding on the bytes sent instead of on the headers
FailOrEnd_ByBody(c, msg) ==
    IF c.body = << >> THEN ResJson(c, 500, msg) ELSE ResEnd(c)

\* `if (!res.headersSent) res.status(500).json({ error }) else res.end()`
FailOrEnd(c, msg) ==
    IF ~c.headersSent THEN ResJson(c, 500, msg) ELSE ResEnd(c)

Init ==
    /\ now = StartTime
    /\ sockets = {}
    /\ socketDeviceId = [s \in SocketIds |-> ""]
    /\ devices = << >>
    /\ pendingRequests = << >>
    /\ calls = << >>
    /\ nextCleanup = StartTime + CLEANUP_INTERVAL
    /\ events = 0
    /\ outbox = << >>
    /\ monitoredApps = << >>
    /\ closedSockets = {}
    /\ crashed = FALSE
    /\ registrations = << >>
    /\ uploads = << >>

\* the instants at which a setTimeout callback or the cleanup interval falls due
DueInstants ==
    { calls[r].due : r \in { i \in 1..Len(calls) : calls[i].timer = "armed" } }
        \cup {nextCleanup}

\* the instants the clock may move to next: the next due instant, and a small
\* step ahead while requests may still arrive
NextInstants ==
    { t \in DueInstants \cup (IF now < MaxAllocNow THEN {now + TickStep} ELSE {}) :
        t > now /\ t <= MaxNow }

SetMin(S) == CHOOSE x \in S : \A y \in S : x <= y

\* time passes
Tick ==
    /\ LoopIdle
    /\ NextInstants # {}
    /\ now' = SetMin(NextInstants)
    /\ outbox' = << >>
    /\ UNCHANGED << sockets, socketDeviceId, devices, pendingRequests, calls,
                    nextCleanup, events, monitoredApps, closedSockets, crashed,
                    registrations, uploads >>

\* ---------------------------------------------------------------------
\* Connections and the registry
\* ---------------------------------------------------------------------
\* io.on('connection'): a new socket, with a socket id never seen before
Connection(s) ==
    /\ SocketTurn
    /\ s \notin sockets \cup closedSockets
    /\ sockets' = sockets \cup {s}
    /\ outbox' = << >>
    /\ UNCHANGED << now, socketDeviceId, devices, pendingRequests, calls,
                    nextCleanup, events, monitoredApps, closedSockets, crashed,
                    registrations, uploads >>

\* what a successful registration leaves in `registrations`
Registered(deviceId, socketId) == [deviceId |-> deviceId, socketId |-> socketId]

\* `a || b` on strings: the empty string is falsy
OrElse(a, b) == IF a = "" THEN b ELSE a

\* the record both socket registrations store
SocketDeviceRecord(deviceId, data, s, t) ==
    [key |-> deviceId,
     id |-> deviceId,
     name |-> OrElse(data.deviceName, "Unknown Device"),
     type |-> OrElse(data.deviceType, "unknown"),
     socketId |-> s,
     status |-> "online",
     connectedAt |-> t,
     lastActivity |-> t,
     ipAddress |-> OrElse(data.ipAddress, "null")]

\* the body shared by socket.on('register') and socket.on('register_device');
\* uuid is what uuidv4() returns when data.deviceId is falsy
RegisterOnSocket(s, data, uuid) ==
    LET deviceId == OrElse(data.deviceId, uuid)
        devs == MapSet(devices, SocketDeviceRecord(deviceId, data, s, now))
    IN  /\ SocketTurn
        /\ s \in sockets
        /\ Len(registrations) < MaxRegistrations
        /\ now <= MaxAllocNow
        /\ devices' = devs
        /\ socketDeviceId' = [socketDeviceId EXCEPT ![s] = deviceId]
        /\ outbox' = << [to |-> s, event |-> "registered", deviceId |-> deviceId],
                        broadcastDeviceList(devs) >>
        /\ registrations' = Append(registrations, Registered(deviceId, s))
        /\ UNCHANGED << now, sockets, pendingRequests, calls, nextCleanup, events,
                        monitoredApps, closedSockets, crashed, uploads >>

\* socket.on('register')
Register(s, data, uuid) == RegisterOnSocket(s, data, uuid)

\* socket.on('register_device')
RegisterDevice(s, data, uuid) == RegisterOnSocket(s, data, uuid)

\* app.post('/api/ftp/register') requiring the deviceId only
FtpRegister_IdOnly(body) ==
    /\ LoopIdle
    /\ IF body.deviceId = ""
       THEN /\ outbox' = << [to |-> "http", event |-> "reply", status |-> 400,
                             error |-> "deviceId and ipAddress are required"] >>
            /\ UNCHANGED << devices, registrations >>
       ELSE LET devs == MapSet(devices,
                          [key |-> body.deviceId,
                           id |-> body.deviceId,
                           name |-> OrElse(body.deviceName, "Unknown Device"),
                           type |-> "ftp-only",
                           socketId |-> NullSocket,
                           status |-> "online",
                           connectedAt |-> now,
                           lastActivity |-> now,
                           ipAddress |-> body.ipAddress])
            IN  /\ Len(registrations) < MaxRegistrations
                /\ now <= MaxAllocNow
                /\ devices' = devs
                /\ outbox' = << broadcastDeviceList(devs),
                                [to |-> "http", event |-> "reply", status |-> 200,
                                 error |-> ""] >>
                /\ registrations' = Append(registrations,
                                            Registered(body.deviceId, NullSocket))
    /\ UNCHANGED << now, sockets, socketDeviceId, pendingRequests, calls, nextCleanup,
                    events, monitoredApps, closedSockets, crashed, uploads >>

\* app.post('/api/ftp/register')
FtpRegister(body) ==
    /\ LoopIdle
    /\ IF body.deviceId = "" \/ body.ipAddress = ""
       THEN /\ outbox' = << [to |-> "http", event |-> "reply", status |-> 400,
                             error |-> "deviceId and ipAddress are required"] >>
            /\ UNCHANGED << devices, registrations >>
       ELSE LET devs == MapSet(devices,
                          [key |-> body.deviceId,
                           id |-> body.deviceId,
                           name |-> OrElse(body.deviceName, "Unknown Device"),
                           type |-> "ftp-only",
                           socketId |-> NullSocket,
                           status |-> "online",
                           connectedAt |-> now,
                           lastActivity |-> now,
                           ipAddress |-> body.ipAddress])
            IN  /\ Len(registrations) < MaxRegistrations
                /\ now <= MaxAllocNow
                /\ devices' = devs
                /\ outbox' = << broadcastDeviceList(devs),
                                [to |-> "http", event |-> "reply", status |-> 200,
                                 error |-> ""] >>
                /\ registrations' = Append(registrations,
                                            Registered(body.deviceId, NullSocket))
    /\ UNCHANGED << now, sockets, socketDeviceId, pendingRequests, calls, nextCleanup,
                    events, monitoredApps, closedSockets, crashed, uploads >>

\* socket.on('ping')
Ping(s) ==
    /\ SocketTurn
    /\ s \in sockets
    /\ outbox' = << [to |-> s, event |-> "pong", timestamp |-> now] >>
    /\ UNCHANGED << now, sockets, socketDeviceId, devices, pendingRequests, calls,
                    nextCleanup, events, monitoredApps, closedSockets, crashed,
                    registrations, uploads >>

\* the body shared by socket.on('offer'), socket.on('answer') and
\* socket.on('ice-candidate') with every relayed message sent to all sockets
Relay_ToEveryone(s, event, targetDeviceId, payload) ==
    /\ SocketTurn
    /\ s \in sockets
    /\ outbox' = IF HasDevice(devices, targetDeviceId)
                 THEN << [to |-> "*",
                          event |-> event, fromDeviceId |-> socketDeviceId[s],
                          payload |-> payload] >>
                 ELSE << >>
    /\ UNCHANGED << now, sockets, socketDeviceId, devices, pendingRequests, calls,
                    nextCleanup, events, monitoredApps, closedSockets, crashed,
                    registrations, uploads >>

\* the body shared by socket.on('offer'), socket.on('answer') and
\* socket.on('ice-candidate'): io.to(targetDevice.socketId).emit(event,
\* {fromDeviceId: socket.deviceId, sdp | candidate}) when the registry has a
\* record of the target, whatever its socketId is, and nothing otherwise;
\* payload is data.sdp, or data.candidate for 'ice-candidate'
Relay(s, event, targetDeviceId, payload) ==
    /\ SocketTurn
    /\ s \in sockets
    /\ outbox' = IF HasDevice(devices, targetDeviceId)
                 THEN << [to |-> GetDevice(devices, targetDeviceId).socketId,
                          event |-> event, fromDeviceId |-> socketDeviceId[s],
                          payload |-> payload] >>
                 ELSE << >>
    /\ UNCHANGED << now, sockets, socketDeviceId, devices, pendingRequests, calls,
                    nextCleanup, events, monitoredApps, closedSockets, crashed,
                    registrations, uploads >>

\* socket.on('offer')
Offer(s, targetDeviceId, sdp) == Relay(s, "offer", targetDeviceId, sdp)

\* socket.on('answer')
Answer(s, targetDeviceId, sdp) == Relay(s, "answer", targetDeviceId, sdp)

\* socket.on('ice-candidate')
IceCandidate(s, targetDeviceId, candidate) ==
    Relay(s, "ice-candidate", targetDeviceId, candidate)

\* startMirroring(targetDeviceId, options): REQUEST_MIRROR goes to the socketId
\* of the target's record and the caller gets true when the registry has a
\* record of the target; the caller gets false otherwise.  quality is
\* options.quality, "" when the caller gives none
startMirroring(targetDeviceId, quality) ==
    /\ LoopIdle
    /\ outbox' = IF HasDevice(devices, targetDeviceId)
                 THEN << [to |-> GetDevice(devices, targetDeviceId).socketId,
                          event |-> "REQUEST_MIRROR",
                          quality |-> OrElse(quality, "high")],
                         [to |-> "caller", event |-> "return", value |-> TRUE] >>
                 ELSE << [to |-> "caller", event |-> "return", value |-> FALSE] >>
    /\ UNCHANGED << now, sockets, socketDeviceId, devices, pendingRequests, calls,
                    nextCleanup, events, monitoredApps, closedSockets, crashed,
                    registrations, uploads >>

\* socket.on('disconnect') dropping the pending entries of the requests that
\* were sent to the socket
Disconnect_DropPending(s) ==
    /\ SocketTurn
    /\ s \in sockets
    /\ sockets' = sockets \ {s}
    /\ closedSockets' = closedSockets \cup {s}
    /\ IF socketDeviceId[s] # ""
       THEN LET devs == MapDelete(devices, socketDeviceId[s])
            IN  /\ devices' = devs
                /\ outbox' = << broadcastDeviceList(devs) >>
       ELSE /\ UNCHANGED devices
            /\ outbox' = << >>
    /\ pendingRequests' =
          [k \in { id \in DOMAIN pendingRequests :
                     \A r \in 1..Len(calls) :
                        calls[r].requestId = id => calls[r].to # s }
              |-> pendingRequests[k]]
    /\ UNCHANGED << now, socketDeviceId, calls, nextCleanup, events,
                    monitoredApps, crashed,
                    registrations, uploads >>

\* socket.on('disconnect') keeping the record and marking it offline
Disconnect_MarkOffline(s) ==
    /\ SocketTurn
    /\ s \in sockets
    /\ sockets' = sockets \ {s}
    /\ closedSockets' = closedSockets \cup {s}
    /\ IF socketDeviceId[s] # ""
       THEN LET devs == [i \in 1..Len(devices) |->
                            IF devices[i].key = socketDeviceId[s]
                            THEN [devices[i] EXCEPT !.status = "offline"]
                            ELSE devices[i]]
            IN  /\ devices' = devs
                /\ outbox' = << broadcastDeviceList(devs) >>
       ELSE /\ UNCHANGED devices
            /\ outbox' = << >>
    /\ UNCHANGED << now, socketDeviceId, pendingRequests, calls, nextCleanup, events,
                    monitoredApps, crashed,
                    registrations, uploads >>

\* socket.on('disconnect')
Disconnect(s) ==
    /\ SocketTurn
    /\ s \in sockets
    /\ sockets' = sockets \ {s}
    /\ closedSockets' = closedSockets \cup {s}
    /\ IF socketDeviceId[s] # ""
       THEN LET devs == MapDelete(devices, socketDeviceId[s])
            IN  /\ devices' = devs
                /\ outbox' = << broadcastDeviceList(devs) >>
       ELSE /\ UNCHANGED devices
            /\ outbox' = << >>
    /\ UNCHANGED << now, socketDeviceId, pendingRequests, calls, nextCleanup, events,
                    monitoredApps, crashed,
                    registrations, uploads >>

\* ---------------------------------------------------------------------
\* The correlation table
\* ---------------------------------------------------------------------
Has(pr, requestId) == requestId \in DOMAIN pr

\* pendingRequests.set
TableSet(pr, requestId, entry) ==
    [k \in (DOMAIN pr) \cup {requestId} |-> IF k = requestId THEN entry ELSE pr[k]]

\* pendingRequests.set with the place of the entry in the Map's iteration
\* order kept in its `pos` field: an existing key keeps its place, a new key
\* goes behind every entry
PendingSet(pr, requestId, entry) ==
    LET places == { pr[k].pos : k \in DOMAIN pr } \cup {0}
        last == CHOOSE m \in places : \A n \in places : n <= m
    IN  TableSet(pr, requestId,
                 [entry EXCEPT !.pos = IF Has(pr, requestId) THEN pr[requestId].pos
                                       ELSE last + 1])

\* pendingRequests.delete
TableDelete(pr, requestId) == [k \in (DOMAIN pr) \ {requestId} |-> pr[k]]

HttpReply(status, error) ==
    [to |-> "http", event |-> "reply", status |-> status, error |-> error]

\* Precheck answering an unknown device like one that has no socket
Precheck_NotFoundAs400(devs, deviceId, path, required) ==
    IF deviceId = "" \/ path = ""
    THEN HttpReply(400, required)
    ELSE IF ~HasDevice(devs, deviceId)
    THEN HttpReply(400, "Device not connected via WebSocket")
    ELSE IF GetDevice(devs, deviceId).socketId = NullSocket
    THEN HttpReply(400, "Device not connected via WebSocket")
    ELSE HttpReply(0, "")

\* Precheck without the test of device.socketId
Precheck_IgnoreHandle(devs, deviceId, path, required) ==
    IF deviceId = "" \/ path = ""
    THEN HttpReply(400, required)
    ELSE IF ~HasDevice(devs, deviceId)
    THEN HttpReply(404, "Device not found or offline")
    ELSE HttpReply(0, "")

\* the checks both /api/ftp/browse and /api/ftp/download make before allocating
\* an id: status 0 when the request may proceed, else the reply
Precheck(devs, deviceId, path, required) ==
    IF deviceId = "" \/ path = ""
    THEN HttpReply(400, required)
    ELSE IF ~HasDevice(devs, deviceId)
    THEN HttpReply(404, "Device not found or offline")
    ELSE IF GetDevice(devs, deviceId).socketId = NullSocket
    THEN HttpReply(400, "Device not connected via WebSocket")
    ELSE HttpReply(0, "")

\* app.get('/api/ftp/browse'); rnd is what Math.random() contributes to the id
Browse(deviceId, rnd) ==
    LET chk == Precheck(devices, deviceId, "/", "deviceId is required")
    IN  /\ LoopIdle
        /\ IF chk.status # 0
           THEN /\ outbox' = << chk >>
                /\ UNCHANGED << pendingRequests, calls >>
           ELSE LET requestId == generateRequestId(now, rnd)
                    r == Len(calls) + 1
                    device == GetDevice(devices, deviceId)
                IN  /\ Len(calls) < MaxRequests
                    /\ now <= MaxAllocNow
                    /\ pendingRequests' =
                           PendingSet(pendingRequests, requestId, BrowseEntry(r, now))
                    /\ calls' = Append(calls, NewCall("browse", requestId, deviceId,
                                                     device.socketId, now + BROWSE_TIMEOUT))
                    /\ outbox' = << [to |-> device.socketId, event |-> "ftp-list-request",
                                     requestId |-> requestId, path |-> "/"] >>
        /\ UNCHANGED << now, sockets, socketDeviceId, devices, nextCleanup, events,
                        monitoredApps, closedSockets, crashed,
                    registrations, uploads >>

\* the setTimeout callback of /api/ftp/browse for call r
BrowseTimeout(r) ==
    /\ LoopIdle
    /\ r \in 1..Len(calls)
    /\ calls[r].kind = "browse"
    /\ calls[r].timer = "armed"
    /\ now >= calls[r].due
    /\ IF Has(pendingRequests, calls[r].requestId)
       THEN /\ pendingRequests' = TableDelete(pendingRequests, calls[r].requestId)
            /\ calls' = [calls EXCEPT
                           ![r] = [PromiseReject(@, "Request timeout",
                                                Microtask(calls, "timer"))
                                   EXCEPT !.timer = "fired"]]
       ELSE /\ calls' = [calls EXCEPT ![r].timer = "fired"]
            /\ UNCHANGED pendingRequests
    /\ outbox' = << >>
    /\ UNCHANGED << now, sockets, socketDeviceId, devices, nextCleanup, events,
                    monitoredApps, closedSockets, crashed,
                    registrations, uploads >>

\* the rest of app.get('/api/ftp/browse') after `await responsePromise`, run
\* as the reaction of the settled promise of call r: `res.json({ files })`,
\* or the catch block's `res.status(500).json({ error: err.message })`.
\* Reactions run in the order in which they were queued.
BrowseResume(r) ==
    /\ ~crashed
    /\ r \in ReactionsDue(calls)
    /\ \A q \in ReactionsDue(calls) : calls[r].reaction.seq <= calls[q].reaction.seq
    /\ calls' = [calls EXCEPT
                   ![r] = [ResJson(@, IF @.promise = "resolved" THEN 200 ELSE 500,
                                   @.value)
                             EXCEPT !.at = "returned"]]
    /\ outbox' = << >>
    /\ UNCHANGED << now, sockets, socketDeviceId, devices, pendingRequests,
                    nextCleanup, events, monitoredApps, closedSockets, crashed,
                    registrations, uploads >>

\* app.get('/api/ftp/download')
Download(deviceId, path, rnd) ==
    LET chk == Precheck(devices, deviceId, path, "deviceId and path are required")
    IN  /\ LoopIdle
        /\ IF chk.status # 0
           THEN /\ outbox' = << chk >>
                /\ UNCHANGED << pendingRequests, calls >>
           ELSE LET requestId == generateRequestId(now, rnd)
                    r == Len(calls) + 1
                    device == GetDevice(devices, deviceId)
                IN  /\ Len(calls) < MaxRequests
                    /\ now <= MaxAllocNow
                    /\ pendingRequests' =
                           PendingSet(pendingRequests, requestId, DownloadEntry(r, now))
                    /\ calls' = Append(calls, NewCall("download", requestId, deviceId,
                                                     device.socketId, now + DOWNLOAD_TIMEOUT))
                    /\ outbox' = << [to |-> device.socketId, event |-> "ftp-download-request",
                                     requestId |-> requestId, path |-> path] >>
        /\ UNCHANGED << now, sockets, socketDeviceId, devices, nextCleanup, events,
                        monitoredApps, closedSockets, crashed,
                    registrations, uploads >>

\* the setTimeout callback of /api/ftp/download closing the response without
\* looking the id up in the table
DownloadTimeout_Unconditional(r) ==
    /\ LoopIdle
    /\ r \in 1..Len(calls)
    /\ calls[r].kind = "download"
    /\ calls[r].timer = "armed"
    /\ now >= calls[r].due
    /\ pendingRequests' = TableDelete(pendingRequests, calls[r].requestId)
    /\ calls' = [calls EXCEPT
                   ![r] = [FailOrEnd(@, "Request timeout") EXCEPT !.timer = "fired"]]
    /\ outbox' = << >>
    /\ UNCHANGED << now, sockets, socketDeviceId, devices, nextCleanup, events,
                    monitoredApps, closedSockets, crashed,
                    registrations, uploads >>

\* the setTimeout callback of /api/ftp/download for call r
DownloadTimeout(r) ==
    /\ LoopIdle
    /\ r \in 1..Len(calls)
    /\ calls[r].kind = "download"
    /\ calls[r].timer = "armed"
    /\ now >= calls[r].due
    /\ IF Has(pendingRequests, calls[r].requestId)
       THEN /\ pendingRequests' = TableDelete(pendingRequests, calls[r].requestId)
            /\ calls' = [calls EXCEPT
                           ![r] = [FailOrEnd(@, "Request timeout") EXCEPT !.timer = "fired"]]
       ELSE /\ calls' = [calls EXCEPT ![r].timer = "fired"]
            /\ UNCHANGED pendingRequests
    /\ outbox' = << >>
    /\ UNCHANGED << now, sockets, socketDeviceId, devices, nextCleanup, events,
                    monitoredApps, closedSockets, crashed,
                    registrations, uploads >>

\* the body of `if (pendingRequest)` in socket.on('ftp-list-response'):
\* [pr, cs, threw]
ListResponseSettle(pr, cs, requestId, files, error) ==
    LET entry == pr[requestId]
    IN  IF error # ""
        THEN IF entry.reject = Undefined
             THEN [pr |-> pr, cs |-> cs, threw |-> TRUE]
             ELSE [pr |-> TableDelete(pr, requestId),
                   cs |-> [cs EXCEPT ![entry.reject] = PromiseReject(@, error, Microtask(cs, "event"))],
                   threw |-> FALSE]
        ELSE IF entry.resolve = Undefined
             THEN [pr |-> pr, cs |-> cs, threw |-> TRUE]
             ELSE [pr |-> TableDelete(pr, requestId),
                   cs |-> [cs EXCEPT ![entry.resolve] = PromiseResolve(@, files, Microtask(cs, "event"))],
                   threw |-> FALSE]

\* ListResponseEffect with the lookup relaxed: a response whose id is unknown is
\* given to the one request that is pending
ListResponseEffect_AnyPending(pr, cs, requestId, files, error) ==
    IF Has(pr, requestId)
    THEN ListResponseSettle(pr, cs, requestId, files, error)
    ELSE IF Cardinality(DOMAIN pr) = 1
    THEN ListResponseSettle(pr, cs, CHOOSE k \in DOMAIN pr : TRUE, files, error)
    ELSE [pr |-> pr, cs |-> cs, threw |-> FALSE]

\* what socket.on('ftp-list-response') does to the table and the callers:
\* [pr, cs, threw]
ListResponseEffect(pr, cs, requestId, files, error) ==
    IF Has(pr, requestId)
    THEN ListResponseSettle(pr, cs, requestId, files, error)
    ELSE [pr |-> pr, cs |-> cs, threw |-> FALSE]

\* socket.on('ftp-list-response')
FtpListResponse(s, requestId, files, error) ==
    LET eff == ListResponseEffect(pendingRequests, calls, requestId, files, error)
    IN  /\ SocketTurn
        /\ s \in sockets
        /\ events < MaxEvents
        /\ events' = events + 1
        /\ pendingRequests' = eff.pr
        /\ calls' = eff.cs
        /\ crashed' = eff.threw
        /\ outbox' = IF eff.threw THEN << >>
                     ELSE << [to |-> "*", event |-> "ftp-list-response",
                              requestId |-> requestId, deviceId |-> socketDeviceId[s]] >>
        /\ UNCHANGED << now, sockets, socketDeviceId, devices, nextCleanup,
                        monitoredApps, closedSockets,
                    registrations, uploads >>

\* the chunk a non-error ftp-download-chunk event feeds to call r
Feed(c, chunk) == [c EXCEPT !.fed = Append(@, chunk)]

\* DownloadChunkRelay forgetting to release the entry and its timer on the last chunk
DownloadChunkRelay_KeepEntry(pr, cs, requestId, chunk, isLast, error) ==
    LET response == pr[requestId].response
        timeoutId == pr[requestId].timeoutId
    IN  IF error # ""
        THEN IF response = Undefined
             THEN [pr |-> TableDelete(pr, requestId),
                   cs |-> ClearTimeout(cs, timeoutId), threw |-> TRUE]
             ELSE [pr |-> TableDelete(pr, requestId),
                   cs |-> [ClearTimeout(cs, timeoutId) EXCEPT
                              ![response] = FailOrEnd(@, error)],
                   threw |-> FALSE]
        ELSE IF response = Undefined
             THEN [pr |-> pr, cs |-> cs, threw |-> (chunk # << >> \/ isLast)]
             ELSE LET written ==
                          IF chunk # << >>
                          THEN [cs EXCEPT ![response] =
                                   ResWrite(@, BufferFromBase64(chunk))]
                          ELSE cs
                  IN  IF isLast
                      THEN [pr |-> pr,
                            cs |-> [written EXCEPT ![response] = ResEnd(@)],
                            threw |-> FALSE]
                      ELSE [pr |-> pr, cs |-> written, threw |-> FALSE]

\* the body of `if (pendingRequest)` in socket.on('ftp-download-chunk'):
\* [pr, cs, threw]
DownloadChunkRelay(pr, cs, requestId, chunk, isLast, error) ==
    LET response == pr[requestId].response
        timeoutId == pr[requestId].timeoutId
    IN  IF error # ""
        THEN IF response = Undefined
             THEN [pr |-> TableDelete(pr, requestId),
                   cs |-> ClearTimeout(cs, timeoutId), threw |-> TRUE]
             ELSE [pr |-> TableDelete(pr, requestId),
                   cs |-> [ClearTimeout(cs, timeoutId) EXCEPT
                              ![response] = FailOrEnd(@, error)],
                   threw |-> FALSE]
        ELSE IF response = Undefined
             THEN [pr |-> pr, cs |-> cs, threw |-> (chunk # << >> \/ isLast)]
             ELSE LET written ==
                          IF chunk # << >>
                          THEN [cs EXCEPT ![response] =
                                   ResWrite(@, BufferFromBase64(chunk))]
                          ELSE cs
                  IN  IF isLast
                      THEN [pr |-> TableDelete(pr, requestId),
                            cs |-> ClearTimeout(
                                      [written EXCEPT ![response] = ResEnd(@)],
                                      timeoutId),
                            threw |-> FALSE]
                      ELSE [pr |-> pr, cs |-> written, threw |-> FALSE]

\* DownloadChunkEffect with the lookup relaxed: a chunk whose id is unknown
\* re-opens the transfer under that id for the sink that was opened last
DownloadChunkEffect_Revive(pr, cs, requestId, chunk, isLast, error) ==
    IF Has(pr, requestId)
    THEN DownloadChunkRelay(pr, cs, requestId, chunk, isLast, error)
    ELSE IF Len(cs) > 0 /\ cs[Len(cs)].kind = "download"
    THEN DownloadChunkRelay(PendingSet(pr, requestId, DownloadEntry(Len(cs), 0)), cs,
                            requestId, chunk, isLast, error)
    ELSE [pr |-> pr, cs |-> cs, threw |-> FALSE]

\* what socket.on('ftp-download-chunk') does to the table and the callers:
\* [pr, cs, threw]
DownloadChunkEffect(pr, cs, requestId, chunk, isLast, error) ==
    IF Has(pr, requestId)
    THEN DownloadChunkRelay(pr, cs, requestId, chunk, isLast, error)
    ELSE [pr |-> pr, cs |-> cs, threw |-> FALSE]

\* socket.on('ftp-download-chunk')
FtpDownloadChunk(s, requestId, chunk, isLast, error) ==
    LET eff == DownloadChunkEffect(pendingRequests, calls, requestId, chunk, isLast, error)
        fedTo == IF Has(pendingRequests, requestId) /\ error = ""
                 THEN pendingRequests[requestId].response
                 ELSE Undefined
    IN  /\ SocketTurn
        /\ s \in sockets
        /\ events < MaxEvents
        /\ events' = events + 1
        /\ pendingRequests' = eff.pr
        /\ calls' = IF fedTo = Undefined THEN eff.cs
                    ELSE [eff.cs EXCEPT ![fedTo] = Feed(@, chunk)]
        /\ crashed' = eff.threw
        /\ outbox' = IF eff.threw THEN << >>
                     ELSE << [to |-> "*", event |-> "ftp-download-chunk",
                              requestId |-> requestId, deviceId |-> socketDeviceId[s]] >>
        /\ UNCHANGED << now, sockets, socketDeviceId, devices, nextCleanup,
                        monitoredApps, closedSockets,
                    registrations, uploads >>

\* the entry app.post('/api/apps/sync') stores for a device: the value
\* { apps, lastUpdate } under the key deviceId
AppsEntry(deviceId, apps, lastUpdate) ==
    [key |-> deviceId, apps |-> apps, lastUpdate |-> lastUpdate]

\* app.post('/api/apps/sync'); body.given tells whether the body has `apps`,
\* body.timestamp is 0 when the body has no timestamp
AppsSync(body) ==
    /\ LoopIdle
    /\ IF body.deviceId = "" \/ ~body.given
       THEN /\ outbox' = << [to |-> "http", event |-> "reply", status |-> 400,
                             error |-> "deviceId and apps are required"] >>
            /\ UNCHANGED monitoredApps
       ELSE /\ monitoredApps' =
                  MapSet(monitoredApps,
                         AppsEntry(body.deviceId, body.apps,
                                   IF body.timestamp # 0 THEN body.timestamp ELSE now))
            /\ outbox' = << [to |-> "http", event |-> "reply", status |-> 200,
                             error |-> "", appsReceived |-> Len(body.apps)] >>
    /\ UNCHANGED << now, sockets, socketDeviceId, devices, pendingRequests, calls,
                    nextCleanup, events, closedSockets, crashed, registrations, uploads >>

\* an app as a device reports it: { packageName, appName }
App(packageName, appName) == [packageName |-> packageName, appName |-> appName]

\* deviceData.apps after app.post('/api/apps/update'): the first app with the
\* packageName of `app` is replaced by it, or `app` is pushed
AppsWith(apps, app) ==
    LET found == { i \in 1..Len(apps) : apps[i].packageName = app.packageName }
    IN  IF found # {}
        THEN [apps EXCEPT ![CHOOSE i \in found : \A j \in found : i <= j] = app]
        ELSE Append(apps, app)

\* deviceData.apps.filter(a => a.packageName !== packageName)
AppsWithout(apps, packageName) ==
    SelectSeq(apps, LAMBDA a : a.packageName # packageName)

\* app.post('/api/apps/update'); body.given tells whether the body has `app`.
\* The entry of the device, or a new one, gets the app and lastUpdate =
\* Date.now(); an existing entry keeps its place in the Map.
AppsUpdate(body) ==
    /\ LoopIdle
    /\ IF body.deviceId = "" \/ ~body.given
       THEN /\ outbox' = << [to |-> "http", event |-> "reply", status |-> 400,
                             error |-> "deviceId and app are required"] >>
            /\ UNCHANGED monitoredApps
       ELSE LET apps == IF HasDevice(monitoredApps, body.deviceId)
                        THEN GetDevice(monitoredApps, body.deviceId).apps
                        ELSE << >>
            IN  /\ monitoredApps' =
                      MapSet(monitoredApps,
                             AppsEntry(body.deviceId, AppsWith(apps, body.app), now))
                /\ outbox' = << [to |-> "http", event |-> "reply", status |-> 200,
                                 error |-> ""] >>
    /\ UNCHANGED << now, sockets, socketDeviceId, devices, pendingRequests, calls,
                    nextCleanup, events, closedSockets, crashed, registrations, uploads >>

\* app.post('/api/apps/remove'): the apps of that packageName leave the entry
\* of the device, which gets lastUpdate = Date.now(); a device without entry
\* gets none
AppsRemove(body) ==
    /\ LoopIdle
    /\ IF body.deviceId = "" \/ body.packageName = ""
       THEN /\ outbox' = << [to |-> "http", event |-> "reply", status |-> 400,
                             error |-> "deviceId and packageName are required"] >>
            /\ UNCHANGED monitoredApps
       ELSE /\ monitoredApps' =
                  IF HasDevice(monitoredApps, body.deviceId)
                  THEN MapSet(monitoredApps,
                              AppsEntry(body.deviceId,
                                        AppsWithout(GetDevice(monitoredApps,
                                                              body.deviceId).apps,
                                                    body.packageName),
                                        now))
                  ELSE monitoredApps
            /\ outbox' = << [to |-> "http", event |-> "reply", status |-> 200,
                             error |-> ""] >>
    /\ UNCHANGED << now, sockets, socketDeviceId, devices, pendingRequests, calls,
                    nextCleanup, events, closedSockets, crashed, registrations, uploads >>

\* app.get('/api/apps/list'): reads the entry of the device, changes nothing
AppsList(deviceId) ==
    /\ LoopIdle
    /\ outbox' =
          IF deviceId = ""
          THEN << [to |-> "http", event |-> "reply", status |-> 400,
                   error |-> "deviceId is required"] >>
          ELSE IF ~HasDevice(monitoredApps, deviceId)
          THEN << [to |-> "http", event |-> "reply", status |-> 200, error |-> "",
                   apps |-> << >>, lastUpdate |-> Undefined] >>
          ELSE << [to |-> "http", event |-> "reply", status |-> 200, error |-> "",
                   apps |-> GetDevice(monitoredApps, deviceId).apps,
                   lastUpdate |-> GetDevice(monitoredApps, deviceId).lastUpdate,
                   totalApps |-> Len(GetDevice(monitoredApps, deviceId).apps)] >>
    /\ UNCHANGED << now, sockets, socketDeviceId, devices, pendingRequests, calls,
                    nextCleanup, events, monitoredApps, closedSockets, crashed,
                    registrations, uploads >>

\* ---------------------------------------------------------------------
\* Periodic cleanup
\* ---------------------------------------------------------------------
\* `x || 0` on a number that may be absent
OrZero(x) == IF x = Undefined THEN 0 ELSE x

\* device.lastActivity || device.connectedAt?.getTime() || 0
LastActivityOf(d) == IF d.lastActivity # 0 THEN d.lastActivity ELSE d.connectedAt

RECURSIVE DropIndices(_, _, _)
DropIndices(seq, drop, i) ==
    IF i > Len(seq) THEN << >>
    ELSE (IF i \in drop THEN << >> ELSE << seq[i] >>) \o DropIndices(seq, drop, i + 1)

\* RemoveOldest deleting the k entries that were inserted first
RemoveOldest_FirstInserted(seq, keys, k) == SubSeq(seq, k + 1, Len(seq))

\* entries sorted by their keys with the (stable) Array.prototype.sort, the
\* first k deleted; keys[i] is the sort key of seq[i]
RemoveOldest(seq, keys, k) ==
    LET Before(i) == { j \in 1..Len(seq) :
                         \/ keys[j] < keys[i]
                         \/ (keys[j] = keys[i] /\ j < i) }
        drop == { i \in 1..Len(seq) : Cardinality(Before(i)) < k }
    IN  DropIndices(seq, drop, 1)

\* cleanupStaleDevices removing a device as soon as its age reaches DEVICE_TTL
cleanupStaleDevices_AtTTL(devs, t) ==
    LET fresh == SelectSeq(devs, LAMBDA d : ~(t - LastActivityOf(d) >= DEVICE_TTL))
    IN  IF Len(fresh) > MAX_DEVICES
        THEN RemoveOldest(fresh, [i \in 1..Len(fresh) |-> LastActivityOf(fresh[i])],
                          Len(fresh) - MAX_DEVICES)
        ELSE fresh

cleanupStaleDevices(devs, t) ==
    LET fresh == SelectSeq(devs, LAMBDA d : ~(t - LastActivityOf(d) > DEVICE_TTL))
    IN  IF Len(fresh) > MAX_DEVICES
        THEN RemoveOldest(fresh, [i \in 1..Len(fresh) |-> LastActivityOf(fresh[i])],
                          Len(fresh) - MAX_DEVICES)
        ELSE fresh

LastUpdateOf(a) == a.lastUpdate

\* cleanupMonitoredApps with the limits of the device registry
cleanupMonitoredApps_DeviceLimits(apps, t) ==
    LET fresh == SelectSeq(apps, LAMBDA a : ~(t - a.lastUpdate > DEVICE_TTL))
    IN  IF Len(fresh) > MAX_DEVICES
        THEN RemoveOldest(fresh, [i \in 1..Len(fresh) |-> LastUpdateOf(fresh[i])],
                          Len(fresh) - MAX_DEVICES)
        ELSE fresh

cleanupMonitoredApps(apps, t) ==
    LET fresh == SelectSeq(apps, LAMBDA a : ~(t - a.lastUpdate > MONITORED_APPS_TTL))
    IN  IF Len(fresh) > MAX_MONITORED_APPS
        THEN RemoveOldest(fresh, [i \in 1..Len(fresh) |-> LastUpdateOf(fresh[i])],
                          Len(fresh) - MAX_MONITORED_APPS)
        ELSE fresh

\* the age cleanupPendingRequests computes for an entry
EntryAge(entry, t) == t - OrZero(entry.timestamp)

\* the ids cleanupPendingRequests deletes
SweptIds(pr, t) ==
    { id \in DOMAIN pr : EntryAge(pr[id], t) > PENDING_REQUEST_TIMEOUT }

\* cleanupPendingRequests: [pr, cs]
\* the entries are visited in the Map's order, so the reactions of the
\* promises rejected are queued in that order
cleanupPendingRequests(pr, cs, t) ==
    LET swept == SweptIds(pr, t)
        first == Microtask(cs, "timer")
        Before(id) == Cardinality({ k \in swept : pr[k].pos < pr[id].pos })
        EntryOf(r) == CHOOSE id \in swept : pr[id].reject = r
    IN  [pr |-> [k \in (DOMAIN pr) \ swept |-> pr[k]],
         cs |-> [r \in DOMAIN cs |->
                    IF \E id \in swept : pr[id].reject = r
                    THEN PromiseReject(cs[r], "Request timeout",
                                       [first EXCEPT !.seq = @ + Before(EntryOf(r))])
                    ELSE cs[r]]]

\* the Maps the three cleanups work on, and the calls whose promises they hold
CleanupStore ==
    [devices |-> devices, monitoredApps |-> monitoredApps,
     pendingRequests |-> pendingRequests, calls |-> calls]

\* the store after the call of cleanupStaleDevices()
AfterStaleDevices(st, t) ==
    [st EXCEPT !.devices = cleanupStaleDevices(st.devices, t)]

\* the store after the call of cleanupMonitoredApps()
AfterMonitoredApps(st, t) ==
    [st EXCEPT !.monitoredApps = cleanupMonitoredApps(st.monitoredApps, t)]

\* the store after the call of cleanupPendingRequests()
AfterPendingRequests(st, t) ==
    LET eff == cleanupPendingRequests(st.pendingRequests, st.calls, t)
    IN  [st EXCEPT !.pendingRequests = eff.pr, !.calls = eff.cs]

\* the store before runPeriodicCleanup and after each of its three calls, in
\* the order of the code
CleanupStages(st, t) ==
    LET s1 == AfterStaleDevices(st, t)
        s2 == AfterMonitoredApps(s1, t)
        s3 == AfterPendingRequests(s2, t)
    IN  [start |-> st, devicesDone |-> s1, appsDone |-> s2, requestsDone |-> s3]

\* runPeriodicCleanup, the setInterval callback
RunPeriodicCleanup ==
    LET end == CleanupStages(CleanupStore, now).requestsDone
    IN  /\ LoopIdle
        /\ now >= nextCleanup
        /\ nextCleanup' = now + CLEANUP_INTERVAL
        /\ devices' = end.devices
        /\ monitoredApps' = end.monitoredApps
        /\ pendingRequests' = end.pendingRequests
        /\ calls' = end.calls
        /\ outbox' = << >>
        /\ UNCHANGED << now, sockets, socketDeviceId, events, closedSockets, crashed,
                    registrations, uploads >>

\* ---------------------------------------------------------------------
\* The tus upload server (tus-upload-server.js)
\* ---------------------------------------------------------------------
\* upload.metadata?.filename || `file_${Date.now()}`
FinalName(metadata, t) ==
    IF metadata.filename # "" THEN [name |-> metadata.filename, stamp |-> 0]
    ELSE [name |-> "file_", stamp |-> t]

\* what a hook throws to the tus server
Thrown(uploadId, error) ==
    [to |-> "tus", event |-> "throw", uploadId |-> uploadId, error |-> error]

\* io.emit('ftp-upload-complete', { uploadId, deviceId, filename, size, path })
UploadComplete(uploadId, u) ==
    [to |-> "*", event |-> "ftp-upload-complete", uploadId |-> uploadId,
     deviceId |-> u.metadata.deviceId, filename |-> u.finalName, size |-> u.size,
     path |-> u.finalName]

\* fs.rename(tempPath, finalPath) done: the file of this upload is at finalPath,
\* in the place of whatever file had that path
Renamed(ups, uploadId) ==
    [k \in DOMAIN ups |->
        IF k = uploadId THEN [ups[k] EXCEPT !.at = "final"]
        ELSE IF ups[k].at = "final" /\ ups[k].finalName = ups[uploadId].finalName
        THEN [ups[k] EXCEPT !.at = "overwritten"]
        ELSE ups[k]]

\* onUploadCreate: an upload without metadata.deviceId is refused by throwing,
\* and the tus server then stores nothing; otherwise the upload is created and
\* its bytes go to UPLOAD_DIR
UploadCreate(uploadId, metadata, size) ==
    /\ LoopIdle
    /\ uploadId \notin DOMAIN uploads
    /\ IF metadata.deviceId = ""
       THEN /\ outbox' = << Thrown(uploadId, "deviceId is required in metadata") >>
            /\ UNCHANGED uploads
       ELSE /\ uploads' = TableSet(uploads, uploadId,
                             [metadata |-> metadata, size |-> size, pc |-> "created",
                              at |-> "temp", finalName |-> FinalName(metadata, 0),
                              notified |-> FALSE])
            /\ outbox' = << >>
    /\ UNCHANGED << now, sockets, socketDeviceId, devices, pendingRequests, calls,
                    nextCleanup, events, monitoredApps, closedSockets, crashed,
                    registrations >>

\* onUploadFinish up to `await fs.rename(tempPath, finalPath)`: the final name
\* is chosen and the rename is started
UploadFinish(uploadId) ==
    /\ LoopIdle
    /\ uploadId \in DOMAIN uploads
    /\ uploads[uploadId].pc = "created"
    /\ uploads' = [uploads EXCEPT
                     ![uploadId] = [@ EXCEPT !.pc = "renaming",
                                             !.finalName = FinalName(uploads[uploadId].metadata,
                                                                     now)]]
    /\ outbox' = << >>
    /\ UNCHANGED << now, sockets, socketDeviceId, devices, pendingRequests, calls,
                    nextCleanup, events, monitoredApps, closedSockets, crashed,
                    registrations >>

\* the rename(2) of `fs.rename(tempPath, finalPath)`, done by the thread pool
\* while the hook waits at the await: the file is at finalPath in the place of
\* whatever file had that path.  A rename that fails moves nothing.
RenameDone(uploadId) ==
    /\ ~crashed
    /\ uploadId \in DOMAIN uploads
    /\ uploads[uploadId].pc = "renaming"
    /\ uploads[uploadId].at = "temp"
    /\ uploads' = Renamed(uploads, uploadId)
    /\ outbox' = << >>
    /\ UNCHANGED << now, sockets, socketDeviceId, devices, pendingRequests, calls,
                    nextCleanup, events, monitoredApps, closedSockets, crashed,
                    registrations >>

\* RenameSettled emitting the notification before it looks at the outcome
RenameSettled_NotifyFirst(uploadId, ok, io) ==
    /\ LoopIdle
    /\ uploadId \in DOMAIN uploads
    /\ uploads[uploadId].pc = "renaming"
    /\ ok = (uploads[uploadId].at # "temp")
    /\ uploads' = [uploads EXCEPT
                     ![uploadId] = [@ EXCEPT !.pc = IF ok THEN "unlinking" ELSE "failed",
                                             !.notified = TRUE]]
    /\ outbox' = << UploadComplete(uploadId, uploads[uploadId]) >>
    /\ UNCHANGED << now, sockets, socketDeviceId, devices, pendingRequests, calls,
                    nextCleanup, events, monitoredApps, closedSockets, crashed,
                    registrations >>

\* onUploadFinish resumed after `await fs.rename(tempPath, finalPath)`, up to
\* `await fs.unlink(metaPath)`; ok tells whether the rename succeeded, that is
\* whether the file has left the temporary directory.
\* When the rename failed the error is logged and thrown again.  When it
\* succeeded req.app.get('io') is looked up: io is "io" when the app has an
\* 'io' setting, "undefined" when it has none (nothing is emitted), "no-app"
\* when the request has no app (the lookup throws, the catch throws again).
RenameSettled(uploadId, ok, io) ==
    /\ LoopIdle
    /\ uploadId \in DOMAIN uploads
    /\ uploads[uploadId].pc = "renaming"
    /\ ok = (uploads[uploadId].at # "temp")
    /\ IF ~ok
       THEN /\ uploads' = [uploads EXCEPT ![uploadId].pc = "failed"]
            /\ outbox' = << Thrown(uploadId, "rename") >>
       ELSE IF io = "no-app"
       THEN /\ uploads' = [uploads EXCEPT ![uploadId].pc = "failed"]
            /\ outbox' = << Thrown(uploadId, "TypeError") >>
       ELSE /\ uploads' = [uploads EXCEPT
                             ![uploadId] = [@ EXCEPT !.pc = "unlinking",
                                                     !.notified = (io = "io")]]
            /\ outbox' = IF io = "io"
                         THEN << UploadComplete(uploadId, uploads[uploadId]) >>
                         ELSE << >>
    /\ UNCHANGED << now, sockets, socketDeviceId, devices, pendingRequests, calls,
                    nextCleanup, events, monitoredApps, closedSockets, crashed,
                    registrations >>

\* onUploadFinish from the end of fs.unlink(metaPath), whose failure is
\* ignored, to `return res`
UnlinkSettled(uploadId) ==
    /\ LoopIdle
    /\ uploadId \in DOMAIN uploads
    /\ uploads[uploadId].pc = "unlinking"
    /\ uploads' = [uploads EXCEPT ![uploadId].pc = "done"]
    /\ outbox' = << >>
    /\ UNCHANGED << now, sockets, socketDeviceId, devices, pendingRequests, calls,
                    nextCleanup, events, monitoredApps, closedSockets, crashed,
                    registrations >>

\* ---------------------------------------------------------------------
\* Specifications
\* ---------------------------------------------------------------------
Uuids == {"uuid-1", "uuid-2"}

\* registration payloads
RegData == [deviceId : DeviceIds, deviceName : {"Pixel"},
            deviceType : {"android"}, ipAddress : {""}]

\* the request ids a device event may name: every id handed out, and one never handed out
EventIds == { calls[r].requestId : r \in 1..Len(calls) } \cup {UnknownId}

Next ==
    \/ Tick
    \/ \E s \in SocketIds : Connection(s)
    \/ \E s \in SocketIds, data \in RegData, u \in Uuids : RegisterDevice(s, data, u)
    \/ \E s \in SocketIds : Disconnect(s)
    \/ \E d \in DeviceIds, rnd \in 0..(RandRange - 1) : Browse(d, rnd)
    \/ \E d \in DeviceIds, rnd \in 0..(RandRange - 1) : Download(d, "/f", rnd)
    \/ \E r \in 1..MaxRequests : BrowseTimeout(r)
    \/ \E r \in 1..MaxRequests : BrowseResume(r)
    \/ \E r \in 1..MaxRequests : DownloadTimeout(r)
    \/ \E s \in SocketIds, id \in EventIds, f \in FilesSet, e \in ErrorSet :
          FtpListResponse(s, id, f, e)
    \/ \E s \in SocketIds, id \in EventIds, c \in ChunkSet, l \in BOOLEAN, e \in ErrorSet :
          FtpDownloadChunk(s, id, c, l, e)
    \/ RunPeriodicCleanup

Spec == Init /\ [][Next]_vars

\* The correlation engine on its own: when the first request arrives two sockets
\* are connected, and one of them has registered dev-1.
InitCorr ==
    /\ now = StartTime
    /\ sockets = {"sock-A", "sock-B"}
    /\ socketDeviceId = [s \in SocketIds |-> IF s = "sock-A" THEN "dev-1" ELSE ""]
    /\ devices = << SocketDeviceRecord("dev-1", CHOOSE d \in RegData : d.deviceId = "dev-1",
                                       "sock-A", StartTime) >>
    /\ pendingRequests = << >>
    /\ calls = << >>
    /\ nextCleanup = StartTime + CLEANUP_INTERVAL
    /\ events = 0
    /\ outbox = << >>
    /\ monitoredApps = << >>
    /\ closedSockets = {}
    /\ crashed = FALSE
    /\ registrations = << Registered("dev-1", "sock-A") >>
    /\ uploads = << >>

NextCorr ==
    \/ Tick
    \/ \E d \in DeviceIds, rnd \in 0..(RandRange - 1) : Browse(d, rnd)
    \/ \E d \in DeviceIds, rnd \in 0..(RandRange - 1) : Download(d, "/f", rnd)
    \/ \E r \in 1..MaxRequests : BrowseTimeout(r)
    \/ \E r \in 1..MaxRequests : BrowseResume(r)
    \/ \E r \in 1..MaxRequests : DownloadTimeout(r)
    \/ \E s \in SocketIds, id \in EventIds, f \in FilesSet, e \in ErrorSet :
          FtpListResponse(s, id, f, e)
    \/ \E s \in SocketIds, id \in EventIds, c \in ChunkSet, l \in BOOLEAN, e \in ErrorSet :
          FtpDownloadChunk(s, id, c, l, e)
    \/ RunPeriodicCleanup

SpecCorr == InitCorr /\ [][NextCorr]_vars

\* bodies of POST /api/ftp/register ("" is a field that is absent or empty)
FtpBodies == [deviceId : DeviceIds \cup {""}, deviceName : {"Pixel", ""},
              deviceType : {"android"}, ipAddress : {"10.0.0.2", ""}]

\* Requests to devices that register through HTTP: as SpecCorr starts, with
\* POST /api/ftp/register arriving at any time and devices that do not answer.
NextGate ==
    \/ Tick
    \/ \E body \in FtpBodies : FtpRegister(body)
    \/ \E d \in DeviceIds, rnd \in 0..(RandRange - 1) : Browse(d, rnd)
    \/ \E d \in DeviceIds, rnd \in 0..(RandRange - 1) : Download(d, "/f", rnd)
    \/ \E r \in 1..MaxRequests : BrowseTimeout(r)
    \/ \E r \in 1..MaxRequests : BrowseResume(r)
    \/ \E r \in 1..MaxRequests : DownloadTimeout(r)
    \/ RunPeriodicCleanup

SpecGate == InitCorr /\ [][NextGate]_vars

\* payloads of 'register' and 'register_device' for dev-1 or for a device that
\* names no id: every field given, or only the id ("" is a field that is absent
\* or empty)
RegPayloads ==
    { d \in [deviceId : {"dev-1", ""}, deviceName : {"Pixel", ""},
             deviceType : {"android", ""}, ipAddress : {"10.0.0.2", ""}] :
        /\ (d.deviceName = "") = (d.deviceType = "")
        /\ (d.deviceName = "") = (d.ipAddress = "") }

\* the targets of signaling events: dev-1, and dev-2 which never registers here
RelayTargets == DeviceIds

\* the session descriptions and candidates that signaling events carry
SignalPayloads == {"sdp-1", "sdp-2"}

\* The registry: connections come and go, devices register through a socket
\* or through HTTP, ping, and relay signaling events to each other.
NextReg ==
    \/ Tick
    \/ \E s \in SocketIds : Connection(s)
    \/ \E s \in SocketIds, data \in RegPayloads, u \in Uuids : Register(s, data, u)
    \/ \E s \in SocketIds, data \in RegPayloads, u \in Uuids : RegisterDevice(s, data, u)
    \/ \E body \in { b \in FtpBodies : b.deviceId # "dev-2" } : FtpRegister(body)
    \/ \E s \in SocketIds : Ping(s)
    \/ \E s \in SocketIds, d \in RelayTargets, p \in SignalPayloads : Offer(s, d, p)
    \/ \E s \in SocketIds, d \in RelayTargets, p \in SignalPayloads : Answer(s, d, p)
    \/ \E s \in SocketIds, d \in RelayTargets, p \in SignalPayloads :
          IceCandidate(s, d, p)
    \/ \E s \in SocketIds : Disconnect(s)
    \/ RunPeriodicCleanup

SpecReg == Init /\ [][NextReg]_vars

\* the quality a caller of startMirroring asks for, "" when it gives none
Qualities == {"", "low"}

\* Signaling: connections come and go, dev-1 and a device without an id
\* register through a socket, dev-1 registers through HTTP as well, sockets
\* relay offers, answers and candidates to dev-1 and to dev-2, which never
\* registers, and another module asks devices to start mirroring.
NextSignal ==
    \/ \E s \in SocketIds : Connection(s)
    \/ \E s \in SocketIds, data \in RegPayloads, u \in Uuids : RegisterDevice(s, data, u)
    \/ \E body \in { b \in FtpBodies : b.deviceId = "dev-1" } : FtpRegister(body)
    \/ \E s \in SocketIds, d \in RelayTargets, p \in SignalPayloads : Offer(s, d, p)
    \/ \E s \in SocketIds, d \in RelayTargets, p \in SignalPayloads : Answer(s, d, p)
    \/ \E s \in SocketIds, d \in RelayTargets, p \in SignalPayloads :
          IceCandidate(s, d, p)
    \/ \E d \in RelayTargets, q \in Qualities : startMirroring(d, q)
    \/ \E s \in SocketIds : Disconnect(s)

SpecSignal == Init /\ [][NextSignal]_vars

\* A full registry at the time of a cleanup.  The server has been up for
\* DEVICE_TTL and one cleanup interval more; between MAX_DEVICES - 1 and
\* MAX_DEVICES + Excess devices are registered through HTTP; all were last
\* active a minute ago except two of them, among the first and the last to have
\* been inserted, whose ages are drawn from SweepAges.
SweepTime == StartTime + DEVICE_TTL + CLEANUP_INTERVAL

SweepAges == {0, 60000, DEVICE_TTL, DEVICE_TTL + 1, DEVICE_TTL + 60000}

Digits == << "0", "1", "2", "3", "4", "5", "6", "7", "8", "9" >>

\* the deviceId of the i-th device
IdOf(i) ==
    "dev-" \o Digits[(i \div 100) + 1] \o Digits[((i \div 10) % 10) + 1]
           \o Digits[(i % 10) + 1]

\* the record POST /api/ftp/register stored for the i-th device at time t
HttpRecord(i, t) ==
    [key |-> IdOf(i), id |-> IdOf(i), name |-> "Pixel", type |-> "ftp-only",
     socketId |-> NullSocket,
     status |-> "online", connectedAt |-> t, lastActivity |-> t, ipAddress |-> "10.0.0.2"]

InitSweep ==
    /\ now = SweepTime
    /\ nextCleanup = SweepTime
    /\ \E n \in (MAX_DEVICES - 1)..(MAX_DEVICES + Excess) :
          \E p \in {1, n} : \E q \in {2, n - 1} :
             \E ap \in SweepAges : \E aq \in SweepAges :
                devices = [i \in 1..n |->
                             HttpRecord(i, SweepTime - (IF i = p THEN ap
                                                        ELSE IF i = q THEN aq
                                                        ELSE 60000))]
    /\ sockets = {}
    /\ socketDeviceId = [s \in SocketIds |-> ""]
    /\ pendingRequests = << >>
    /\ calls = << >>
    /\ events = 0
    /\ outbox = << >>
    /\ monitoredApps = << >>
    /\ closedSockets = {}
    /\ crashed = FALSE
    /\ registrations = << >>
    /\ uploads = << >>

NextSweep == RunPeriodicCleanup

SpecSweep == InitSweep /\ [][NextSweep]_vars

\* The monitored apps at the time of a cleanup.  The server has been up for
\* MONITORED_APPS_TTL and one cleanup interval more; between
\* MAX_MONITORED_APPS - 1 and MAX_MONITORED_APPS + Excess devices have synced
\* their apps, all a minute ago except one, the first or the last to have been
\* inserted, whose age is drawn from AppsAges.  sock-A is
\* connected and has registered dev-1; dev-2 registered through HTTP, a minute
\* ago or more than DEVICE_TTL ago; a browse of dev-1 is pending, sent at this
\* very instant.
AppsSweepTime == StartTime + MONITORED_APPS_TTL + CLEANUP_INTERVAL

AppsAges == {60000, MONITORED_APPS_TTL, MONITORED_APPS_TTL + 1}

\* the app lists a device syncs
AppLists == { << >>, << App("com.a", "A") >> }

\* the bodies of POST /api/apps/sync
AppsBodies ==
    { b \in [deviceId : {IdOf(1), "dev-new", ""},
             given : BOOLEAN,
             apps : AppLists,
             timestamp : {0, AppsSweepTime - MONITORED_APPS_TTL - 1}] :
        ~b.given => b.apps = << >> }

InitApps ==
    /\ now = AppsSweepTime
    /\ nextCleanup = AppsSweepTime
    /\ \E n \in (MAX_MONITORED_APPS - 1)..(MAX_MONITORED_APPS + Excess) :
          \E p \in {1, n} : \E ap \in AppsAges :
             monitoredApps =
                [i \in 1..n |->
                   AppsEntry(IdOf(i), << App("com.a", "A") >>,
                             AppsSweepTime - (IF i = p THEN ap ELSE 60000))]
    /\ \E age \in {60000, DEVICE_TTL + 60000} :
          devices = << SocketDeviceRecord("dev-1",
                          [deviceName |-> "Pixel", deviceType |-> "android",
                           ipAddress |-> "10.0.0.2"],
                          "sock-A", AppsSweepTime - 60000),
                       [key |-> "dev-2", id |-> "dev-2", name |-> "Pixel",
                        type |-> "ftp-only",
                        socketId |-> NullSocket, status |-> "online",
                        connectedAt |-> AppsSweepTime - age,
                        lastActivity |-> AppsSweepTime - age,
                        ipAddress |-> "10.0.0.3"] >>
    /\ sockets = {"sock-A"}
    /\ socketDeviceId = [s \in SocketIds |-> IF s = "sock-A" THEN "dev-1" ELSE ""]
    /\ pendingRequests = PendingSet(<< >>, generateRequestId(AppsSweepTime, 0),
                                    BrowseEntry(1, AppsSweepTime))
    /\ calls = << NewCall("browse", generateRequestId(AppsSweepTime, 0),
                          "dev-1", "sock-A", AppsSweepTime + BROWSE_TIMEOUT) >>
    /\ events = 0
    /\ outbox = << >>
    /\ closedSockets = {}
    /\ crashed = FALSE
    /\ registrations = << Registered("dev-1", "sock-A"),
                          Registered("dev-2", NullSocket) >>
    /\ uploads = << >>

\* the bodies of POST /api/apps/update
UpdateBodies ==
    [deviceId : {IdOf(1), "dev-new", ""}, given : BOOLEAN, app : {App("com.z", "Z")}]

\* the bodies of POST /api/apps/remove
RemoveBodies == [deviceId : {IdOf(1), "dev-new", ""}, packageName : {"com.a", ""}]

\* the deviceId of the query of GET /api/apps/list
ListQueries == {IdOf(1), ""}

\* the clock of the monitored apps stops at the cleanup after the first
AppsHorizon == AppsSweepTime + CLEANUP_INTERVAL

\* no request about apps arrives after this time
AppsAllocNow == AppsSweepTime + BROWSE_TIMEOUT

\* time passes to the next timer or cleanup deadline, up to AppsHorizon; no
\* timer and no cleanup is due at this instant: Node runs what is due before
\* what is due later
ElapseApps ==
    /\ LoopIdle
    /\ \A u \in DueInstants : u > now
    /\ \E t \in DueInstants :
          /\ t <= AppsHorizon
          /\ \A u \in DueInstants : t <= u
          /\ now' = t
    /\ outbox' = << >>
    /\ UNCHANGED << sockets, socketDeviceId, devices, pendingRequests, calls,
                    nextCleanup, events, monitoredApps, closedSockets, crashed,
                    registrations, uploads >>

\* Devices sync, update, remove and list apps, in any number and in any
\* order, before and after the first cleanup, until AppsAllocNow; the cleanup
\* runs when it is due, the pending browse times out, and time passes from one
\* deadline to the next, up to the second cleanup.
NextApps ==
    \/ \E body \in AppsBodies : now <= AppsAllocNow /\ AppsSync(body)
    \/ \E body \in UpdateBodies : now <= AppsAllocNow /\ AppsUpdate(body)
    \/ \E body \in RemoveBodies : now <= AppsAllocNow /\ AppsRemove(body)
    \/ \E d \in ListQueries : now <= AppsAllocNow /\ AppsList(d)
    \/ RunPeriodicCleanup
    \/ BrowseTimeout(1)
    \/ BrowseResume(1)
    \/ ElapseApps

SpecApps == InitApps /\ [][NextApps]_vars

\* A device that keeps its connection alive.  sock-A registered dev-1 twenty-five
\* minutes ago (DEVICE_TTL less one cleanup interval), has stayed connected and
\* has sent a 'ping' at every instant since; sock-B is connected and registered
\* nothing.  From here on the clock moves only after sock-A has sent a 'ping'
\* at the current instant, so that its pings are one clock step apart, which is
\* CLEANUP_INTERVAL at most.  No socket disconnects.
InitKeepAlive ==
    /\ now = StartTime
    /\ sockets = {"sock-A", "sock-B"}
    /\ socketDeviceId = [s \in SocketIds |-> IF s = "sock-A" THEN "dev-1" ELSE ""]
    /\ devices = << SocketDeviceRecord("dev-1", CHOOSE d \in RegData : d.deviceId = "dev-1",
                                       "sock-A", StartTime) >>
    /\ pendingRequests = << >>
    /\ calls = << >>
    /\ nextCleanup = StartTime + CLEANUP_INTERVAL
    /\ events = 0
    /\ outbox = << >>
    /\ monitoredApps = << >>
    /\ closedSockets = {}
    /\ crashed = FALSE
    /\ registrations = << Registered("dev-1", "sock-A") >>
    /\ uploads = << >>

\* socket s has sent a 'ping' at this instant and nothing was handled since
PingedNow(s) == outbox = << [to |-> s, event |-> "pong", timestamp |-> now] >>

\* time passes to the next timer or cleanup deadline, over the life of a
\* registration: up to the first cleanup run later than DEVICE_TTL after it
Elapse ==
    /\ LoopIdle
    /\ \E t \in DueInstants :
          /\ t > now
          /\ t <= SweepTime
          /\ \A u \in DueInstants : u > now => t <= u
          /\ now' = t
    /\ outbox' = << >>
    /\ UNCHANGED << sockets, socketDeviceId, devices, pendingRequests, calls,
                    nextCleanup, events, monitoredApps, closedSockets, crashed,
                    registrations, uploads >>

\* A registered device that pings at every instant before time moves on,
\* beside HTTP browse requests and a second socket that signals.
NextKeepAlive ==
    \/ \E s \in SocketIds : Ping(s)
    \/ (PingedNow("sock-A") /\ Elapse)
    \/ \E d \in DeviceIds, rnd \in 0..(RandRange - 1) : Browse(d, rnd)
    \/ \E r \in 1..MaxRequests : BrowseTimeout(r)
    \/ \E r \in 1..MaxRequests : BrowseResume(r)
    \/ \E d \in RelayTargets, p \in SignalPayloads : Offer("sock-B", d, p)
    \/ RunPeriodicCleanup

SpecKeepAlive == InitKeepAlive /\ [][NextKeepAlive]_vars

\* the uploads a client makes
UploadIds == {"up-1", "up-2"}

\* upload.metadata: deviceId and filename, "" when the client gives none
UploadMetadata == [deviceId : {"dev-1", ""}, filename : {"a.bin", ""}]

\* upload.size
UploadSize == 1024

\* what req.app.get('io') comes to
IoLookups == {"io", "undefined", "no-app"}

\* The upload server: clients create uploads, the tus server calls
\* onUploadFinish when an upload has all its bytes, and the file system
\* completes or fails the rename.
NextUpload ==
    \/ \E u \in UploadIds, m \in UploadMetadata : UploadCreate(u, m, UploadSize)
    \/ \E u \in UploadIds : UploadFinish(u)
    \/ \E u \in UploadIds : RenameDone(u)
    \/ \E u \in UploadIds, ok \in BOOLEAN, io \in IoLookups : RenameSettled(u, ok, io)
    \/ \E u \in UploadIds : UnlinkSettled(u)

SpecUpload == Init /\ [][NextUpload]_vars

\* Browsing two devices: both sockets are connected, sock-A has registered dev-1
\* and sock-B has registered dev-2; the devices answer with ftp-list-response.
InitTwo ==
    /\ now = StartTime
    /\ sockets = {"sock-A", "sock-B"}
    /\ socketDeviceId = [s \in SocketIds |-> IF s = "sock-A" THEN "dev-1" ELSE "dev-2"]
    /\ devices = << SocketDeviceRecord("dev-1", CHOOSE d \in RegData : d.deviceId = "dev-1",
                                       "sock-A", StartTime),
                    SocketDeviceRecord("dev-2", CHOOSE d \in RegData : d.deviceId = "dev-2",
                                       "sock-B", StartTime) >>
    /\ pendingRequests = << >>
    /\ calls = << >>
    /\ nextCleanup = StartTime + CLEANUP_INTERVAL
    /\ events = 0
    /\ outbox = << >>
    /\ monitoredApps = << >>
    /\ closedSockets = {}
    /\ crashed = FALSE
    /\ registrations = << Registered("dev-1", "sock-A"), Registered("dev-2", "sock-B") >>
    /\ uploads = << >>

NextBrowse ==
    \/ Tick
    \/ \E d \in DeviceIds, rnd \in 0..(RandRange - 1) : Browse(d, rnd)
    \/ \E r \in 1..MaxRequests : BrowseTimeout(r)
    \/ \E r \in 1..MaxRequests : BrowseResume(r)
    \/ \E s \in SocketIds, id \in EventIds, f \in FilesSet, e \in ErrorSet :
          FtpListResponse(s, id, f, e)
    \/ RunPeriodicCleanup

SpecBrowse == InitTwo /\ [][NextBrowse]_vars

\* Requests to devices that go away: both sockets are connected and registered,
\* browse and download requests are sent to them, the sockets disconnect, and
\* no device answers, so the requests end by their timers or by the cleanup.
NextDrop ==
    \/ Tick
    \/ \E d \in DeviceIds, rnd \in 0..(RandRange - 1) : Browse(d, rnd)
    \/ \E d \in DeviceIds, rnd \in 0..(RandRange - 1) : Download(d, "/f", rnd)
    \/ \E s \in SocketIds : Disconnect(s)
    \/ \E r \in 1..MaxRequests : BrowseTimeout(r)
    \/ \E r \in 1..MaxRequests : BrowseResume(r)
    \/ \E r \in 1..MaxRequests : DownloadTimeout(r)
    \/ RunPeriodicCleanup

SpecDrop == InitTwo /\ [][NextDrop]_vars

\* ---------------------------------------------------------------------
\* Properties
\* ---------------------------------------------------------------------
\* call r is the only request that was ever given its id
SoleOwner(r) ==
    \A q \in 1..Len(calls) : calls[q].requestId = calls[r].requestId => q = r

\* the last handler re-published a device event of this kind naming this id
Republished(event, requestId) ==
    /\ Len(outbox) = 1
    /\ outbox[1].event = event
    /\ outbox[1].requestId = requestId

\* this step is the ftp-list-response handler, running for this id without throwing
ListResponseStep(requestId) ==
    /\ events' = events + 1
    /\ Len(outbox') = 1
    /\ outbox'[1].event = "ftp-list-response"
    /\ outbox'[1].requestId = requestId

\* this step is the ftp-download-chunk handler, running for this id without throwing
DownloadChunkStep(requestId) ==
    /\ events' = events + 1
    /\ Len(outbox') = 1
    /\ outbox'[1].event = "ftp-download-chunk"
    /\ outbox'[1].requestId = requestId

\* this step is a device event whose handler threw
ThrowStep == events' = events + 1 /\ crashed'

\* C8: an ftp-list-response whose requestId is not in pendingRequests leaves
\* pendingRequests and the device registry unchanged and completes or fails no
\* caller.
C8_UnknownListResponseIsNoOp ==
    [][ \A id \in EventIds :
          ((ListResponseStep(id) \/ ThrowStep) /\ ~Has(pendingRequests, id)
             /\ (\E s \in SocketIds, f \in FilesSet, e \in ErrorSet :
                    FtpListResponse(s, id, f, e)))
             => /\ pendingRequests' = pendingRequests
                /\ devices' = devices
                /\ calls' = calls
                /\ ~crashed' ]_vars

\* C8 witness: a response arrived for a browse request that had already timed out
C8_Witness_LateResponse ==
    \E r \in 1..Len(calls) :
        /\ calls[r].kind = "browse"
        /\ SoleOwner(r)
        /\ calls[r].timer = "fired"
        /\ calls[r].json = "Request timeout"
        /\ Republished("ftp-list-response", calls[r].requestId)

\* C9: an ftp-download-chunk whose requestId is not in pendingRequests writes to
\* no sink, closes no sink and does not re-create an entry for that id.
C9_UnknownChunkIsDiscarded ==
    [][ \A id \in EventIds :
          ((DownloadChunkStep(id) \/ ThrowStep) /\ ~Has(pendingRequests, id)
             /\ (\E s \in SocketIds, c \in ChunkSet, l \in BOOLEAN, e \in ErrorSet :
                    FtpDownloadChunk(s, id, c, l, e)))
             => /\ pendingRequests' = pendingRequests
                /\ calls' = calls
                /\ ~crashed' ]_vars

\* C9 witness: a chunk arrived for a download that its last chunk had completed
C9_Witness_ChunkAfterLast ==
    \E r \in 1..Len(calls) :
        /\ calls[r].kind = "download"
        /\ SoleOwner(r)
        /\ calls[r].timer = "cleared"
        /\ calls[r].ended = 1
        /\ Len(calls[r].fed) = 1
        /\ events = 2
        /\ Republished("ftp-download-chunk", calls[r].requestId)

\* the entry under this id is a download entry (it holds a response)
PendingDownload(requestId) ==
    /\ Has(pendingRequests, requestId)
    /\ pendingRequests[requestId].response # Undefined

\* C5: when an ftp-download-chunk with isLast arrives for a pending download id,
\* the sink is ended exactly once, the entry is removed and its timer cancelled;
\* and no later step ends or writes to a sink that has been ended.
C5_LastChunkClosesOnce ==
    [][ /\ \A id \in EventIds :
             (DownloadChunkStep(id) /\ PendingDownload(id)
                /\ (\E s \in SocketIds, c \in ChunkSet :
                       FtpDownloadChunk(s, id, c, TRUE, "")))
                => LET r == pendingRequests[id].response
                       t == pendingRequests[id].timeoutId
                   IN  /\ calls[r].ended = 0
                       /\ calls'[r].ended = 1
                       /\ ~Has(pendingRequests', id)
                       /\ calls'[t].timer = "cleared"
        /\ \A r \in 1..Len(calls) :
             (calls[r].kind = "download" /\ calls[r].ended >= 1)
                => /\ calls'[r].ended = calls[r].ended
                   /\ calls'[r].body = calls[r].body
                   /\ calls'[r].writes = calls[r].writes ]_vars

\* C5 witness: the one chunk "AA==" marked isLast has just completed a download
C5_Witness_LastChunk ==
    \E r \in 1..Len(calls) :
        /\ calls[r].kind = "download"
        /\ calls[r].fed = << <<0, 0, Pad, Pad>> >>
        /\ calls[r].body = << 0 >>
        /\ calls[r].ended = 1
        /\ calls[r].timer = "cleared"
        /\ ~Has(pendingRequests, calls[r].requestId)
        /\ events = 1
        /\ Republished("ftp-download-chunk", calls[r].requestId)

RECURSIVE DecodeAll(_)
DecodeAll(chunks) ==
    IF chunks = << >> THEN << >>
    ELSE BufferFromBase64(Head(chunks)) \o DecodeAll(Tail(chunks))

\* C6: the bytes written to the sink of a download are the decoded payloads of
\* the non-error chunks that arrived for its id while its entry was pending, in
\* arrival order, each once.
C6_ChunksInArrivalOrder ==
    \A r \in 1..Len(calls) :
        calls[r].kind = "download" => calls[r].body = DecodeAll(calls[r].fed)

\* C6 witness: the chunks "AA==" and then "QkI=" (last) arrived; the sink holds
\* the bytes 00 42 42 and is closed
C6_Witness_TwoChunks ==
    \E r \in 1..Len(calls) :
        /\ calls[r].fed = << <<0, 0, Pad, Pad>>, <<16, 36, 8, Pad>> >>
        /\ calls[r].body = << 0, 66, 66 >>
        /\ calls[r].ended = 1
        /\ ~Has(pendingRequests, calls[r].requestId)

\* this step is the ftp-download-chunk handler given an error for a pending download id
ErrorChunkStep(id) ==
    /\ DownloadChunkStep(id)
    /\ PendingDownload(id)
    /\ \E s \in SocketIds, c \in ChunkSet, l \in BOOLEAN :
          FtpDownloadChunk(s, id, c, l, "EACCES")

\* C7 as claimed: an error chunk for a pending download id removes the entry and
\* cancels its timer, writes none of its bytes, and the sink gets HTTP 500 if no
\* bytes were written before and is otherwise terminated.
C7_Claimed_500IfNoBytes ==
    [][ \A id \in EventIds :
          ErrorChunkStep(id)
             => LET r == pendingRequests[id].response
                    t == pendingRequests[id].timeoutId
                IN  /\ ~Has(pendingRequests', id)
                    /\ calls'[t].timer = "cleared"
                    /\ calls'[r].body = calls[r].body
                    /\ calls'[r].ended = 1
                    /\ IF calls[r].body = << >>
                       THEN calls'[r].statusCode = 500 /\ calls'[r].json = "EACCES"
                       ELSE calls'[r].statusCode = 200 /\ calls'[r].json = "" ]_vars

\* C7: an error chunk for a pending download id removes the entry and cancels
\* its timer, writes none of its bytes, and the sink gets HTTP 500 if nothing
\* had been written to it (its headers were not sent) and is otherwise
\* terminated, also when what had been written was empty.
C7_ErrorChunk500IfNothingWritten ==
    [][ \A id \in EventIds :
          ErrorChunkStep(id)
             => LET r == pendingRequests[id].response
                    t == pendingRequests[id].timeoutId
                IN  /\ ~Has(pendingRequests', id)
                    /\ calls'[t].timer = "cleared"
                    /\ calls'[r].body = calls[r].body
                    /\ calls'[r].ended = 1
                    /\ IF calls[r].writes = 0
                       THEN calls'[r].statusCode = 500 /\ calls'[r].json = "EACCES"
                       ELSE calls'[r].statusCode = 200 /\ calls'[r].json = "" ]_vars

\* C7 witness: the chunk "=" (no bytes) was written, then an error arrived: the
\* sink is closed with status 200 and an empty body
C7_Witness_ErrorAfterEmptyWrite ==
    \E r \in 1..Len(calls) :
        /\ calls[r].kind = "download"
        /\ calls[r].fed = << <<Pad>> >>
        /\ calls[r].body = << >>
        /\ calls[r].statusCode = 200
        /\ calls[r].ended = 1
        /\ calls[r].timer = "cleared"
        /\ events = 2
        /\ Republished("ftp-download-chunk", calls[r].requestId)

\* this step is the setTimeout callback of call r
TimerStep(r) == calls[r].timer = "armed" /\ calls'[r].timer = "fired"

\* this step is runPeriodicCleanup
SweepStep == nextCleanup' # nextCleanup

\* what the caller of a browse request has been given or is about to be given
Outcome(c) == << c.promise, c.value, c.statusCode, c.json, c.ended >>

\* C1 as claimed: for every browse request, the first ftp-list-response, timer
\* firing or sweep to act on its id settles the caller's outcome and removes the
\* entry; every later one changes neither the outcome nor the table's entry for
\* that id.
C1_Claimed_FirstActorWins ==
    [][ \A r \in 1..Len(calls) :
          calls[r].kind = "browse"
             => LET id == calls[r].requestId
                IN  /\ ( /\ calls[r].promise = "pending"
                         /\ \/ ListResponseStep(id)
                            \/ TimerStep(r)
                            \/ (SweepStep /\ id \in SweptIds(pendingRequests, now)) )
                          => /\ calls'[r].promise # "pending"
                             /\ ~Has(pendingRequests', id)
                    /\ ( /\ calls[r].promise # "pending"
                         /\ (ListResponseStep(id) \/ TimerStep(r) \/ SweepStep) )
                          => /\ Outcome(calls'[r]) = Outcome(calls[r])
                             /\ Has(pendingRequests', id) = Has(pendingRequests, id) ]_vars

\* C2 as claimed, for the runs in which no device event arrives at all: once the
\* timer of a browse request has fired and no reaction of its promise is still
\* queued, its caller has received 'Request timeout' and its id is no longer in
\* pendingRequests.
C2_Claimed_TimeoutDelivered ==
    events = 0
       => \A r \in 1..Len(calls) :
             (/\ calls[r].kind = "browse"
              /\ calls[r].timer = "fired"
              /\ r \notin ReactionsDue(calls))
                => /\ calls[r].promise = "rejected"
                   /\ calls[r].json = "Request timeout"
                   /\ ~Has(pendingRequests, calls[r].requestId)

\* C3 as claimed, for a download that shares its id with no other request: once
\* its timer has fired or been cancelled (so that neither a last chunk, an error
\* chunk nor the timeout is still to come), its sink has been closed.
C3_Claimed_SinkClosed ==
    \A r \in 1..Len(calls) :
        (calls[r].kind = "download" /\ SoleOwner(r) /\ calls[r].timer # "armed")
           => calls[r].ended >= 1

\* the timeout its own request handler gave the entry, and the age it has now
OwnTimeout(entry) == IF entry.response = Undefined THEN BROWSE_TIMEOUT ELSE DOWNLOAD_TIMEOUT

CreatedAt(entry) == IF entry.response = Undefined THEN entry.timestamp ELSE entry.startTime

\* C4 as claimed: the sweep removes only entries that are not younger than their
\* own timeout (30 s for a browse entry, 10 min for a download entry).
C4_Claimed_SweepSparesYoung ==
    [][ SweepStep
          => \A id \in (DOMAIN pendingRequests) \ (DOMAIN pendingRequests') :
                now - CreatedAt(pendingRequests[id]) >= OwnTimeout(pendingRequests[id]) ]_vars

\* C10 as claimed: the id given to a new browse or download request is not in
\* pendingRequests.
C10_Claimed_FreshId ==
    [][ Len(calls') = Len(calls) + 1
          => ~Has(pendingRequests, calls'[Len(calls')].requestId) ]_vars

\* the browse request of call r is waiting: its promise is unsettled and the
\* table has an entry under its id
PendingBrowse(r) ==
    /\ calls[r].kind = "browse"
    /\ calls[r].promise = "pending"
    /\ Has(pendingRequests, calls[r].requestId)

PendingBrowseAfter(r) ==
    /\ calls'[r].promise = "pending"
    /\ Has(pendingRequests', calls'[r].requestId)

\* C11 as claimed: while two browse requests for two different devices are both
\* pending, a response or a timer firing for one of them leaves the other
\* pending with its entry in the table, and a response without error gives its
\* files to the caller whose request carries the response's id.
C11_Claimed_IndependentBrowses ==
    [][ \A r \in 1..Len(calls) : \A q \in 1..Len(calls) :
          (/\ r # q
           /\ PendingBrowse(r)
           /\ PendingBrowse(q)
           /\ calls[r].deviceId # calls[q].deviceId)
             => /\ (ListResponseStep(calls[r].requestId) \/ TimerStep(r))
                     => PendingBrowseAfter(q)
                /\ \A f \in FilesSet :
                      (/\ ListResponseStep(calls[r].requestId)
                       /\ \E s \in SocketIds :
                             FtpListResponse(s, calls[r].requestId, f, ""))
                         => /\ calls'[r].promise = "resolved"
                            /\ calls'[r].value = f ]_vars

\* C12 as claimed: when the timer of a pending browse request fires, or a
\* response with an error names its id, the caller that was given this id is
\* failed (with 'Request timeout', or with the device's error), and every other
\* pending request is still pending with its entry in the table.
C12_Claimed_FailureToOwnerOnly ==
    [][ \A r \in 1..Len(calls) :
          PendingBrowse(r)
             => /\ TimerStep(r)
                    => /\ calls'[r].promise = "rejected"
                       /\ calls'[r].value = "Request timeout"
                       /\ \A q \in 1..Len(calls) :
                             (q # r /\ PendingBrowse(q)) => PendingBrowseAfter(q)
                /\ (/\ ListResponseStep(calls[r].requestId)
                     /\ \E s \in SocketIds, f \in FilesSet :
                           FtpListResponse(s, calls[r].requestId, f, "EACCES"))
                    => /\ calls'[r].promise = "rejected"
                       /\ calls'[r].value = "EACCES"
                       /\ \A q \in 1..Len(calls) :
                             (calls[q].requestId # calls[r].requestId /\ PendingBrowse(q))
                                => PendingBrowseAfter(q) ]_vars

\* this step is a browse or a download request naming this device
RequestStep(deviceId) ==
    \/ \E rnd \in 0..(RandRange - 1) : Browse(deviceId, rnd)
    \/ \E rnd \in 0..(RandRange - 1) : Download(deviceId, "/f", rnd)

\* C13: a browse or download request naming a deviceId that has no record in
\* the registry is answered with HTTP 404 at once: no id is allocated and no
\* timer armed, nothing is emitted to a socket, and the registry and
\* pendingRequests are unchanged.
C13_UnknownDeviceIs404 ==
    [][ \A d \in DeviceIds :
          (~HasDevice(devices, d) /\ RequestStep(d))
             => /\ outbox' = << HttpReply(404, "Device not found or offline") >>
                /\ calls' = calls
                /\ pendingRequests' = pendingRequests
                /\ devices' = devices ]_vars

\* C13 witness: a request got the 404 reply while another request, to the
\* registered device, was pending
C13_Witness_404WhilePending ==
    /\ outbox = << HttpReply(404, "Device not found or offline") >>
    /\ ~HasDevice(devices, "dev-2")
    /\ \E r \in 1..Len(calls) : calls[r].timer = "armed" /\ calls[r].ended = 0

\* C14: a browse or download request naming a device whose record has no
\* socket (socketId null, stored by POST /api/ftp/register) is answered at once
\* with the not-connected error (HTTP 400): no id is allocated, nothing is
\* emitted to a socket, and the registry and pendingRequests are unchanged.
C14_NoSocketIsNotConnected ==
    [][ \A d \in DeviceIds :
          (/\ HasDevice(devices, d)
           /\ GetDevice(devices, d).socketId = NullSocket
           /\ RequestStep(d))
             => /\ outbox' = << HttpReply(400, "Device not connected via WebSocket") >>
                /\ calls' = calls
                /\ pendingRequests' = pendingRequests
                /\ devices' = devices ]_vars

\* C14 witness: dev-1 was reached through its socket by one request, then
\* registered again through HTTP, and the next request got the not-connected reply
C14_Witness_AfterHttpRegistration ==
    /\ outbox = << HttpReply(400, "Device not connected via WebSocket") >>
    /\ HasDevice(devices, "dev-1")
    /\ GetDevice(devices, "dev-1").socketId = NullSocket
    /\ \E r \in 1..Len(calls) : calls[r].deviceId = "dev-1" /\ calls[r].to = "sock-A"

\* this step is a registration that succeeded
RegistrationStep == Len(registrations') = Len(registrations) + 1

\* the deviceId the registration of this step gave to its registrant
EffectiveId == registrations'[Len(registrations')].deviceId

\* the records the registry holds under this id after the step
RecordsAfter(deviceId) ==
    { i \in 1..Len(devices') : devices'[i].id = deviceId }

\* a field of the record is the value the registrant supplied, when one was supplied
AsSupplied(stored, supplied) == supplied # "" => stored = supplied

\* after the step the registry holds one record under the effective id, online
\* and active now, with this name, type and address
OneRecordWith(name, type, ipAddress) ==
    /\ Cardinality(RecordsAfter(EffectiveId)) = 1
    /\ LET rec == GetDevice(devices', EffectiveId)
       IN  /\ AsSupplied(rec.name, name)
           /\ AsSupplied(rec.type, type)
           /\ AsSupplied(rec.ipAddress, ipAddress)
           /\ rec.status = "online"
           /\ rec.lastActivity = now

\* the effective id is the one supplied, or a generated one when none was
SuppliedOrGenerated(deviceId) ==
    IF deviceId # "" THEN EffectiveId = deviceId ELSE EffectiveId \in Uuids

\* C15 as claimed: after a registration through 'register', 'register_device'
\* or POST /api/ftp/register, the registry holds exactly one record under the
\* effective deviceId, with the supplied name, device type and address, status
\* 'online' and lastActivity the time of the registration.
C15_Claimed_RecordAsSupplied ==
    [][ RegistrationStep
          => /\ \A s \in SocketIds, data \in RegPayloads :
                   (\E u \in Uuids : Register(s, data, u) \/ RegisterDevice(s, data, u))
                      => /\ OneRecordWith(data.deviceName, data.deviceType, data.ipAddress)
                         /\ SuppliedOrGenerated(data.deviceId)
             /\ \A body \in FtpBodies :
                   FtpRegister(body)
                      => OneRecordWith(body.deviceName, body.deviceType, body.ipAddress) ]_vars

\* C15: after a registration through 'register', 'register_device' or POST
\* /api/ftp/register, the registry holds exactly one record under the effective
\* deviceId (the one supplied, or a generated one), with the supplied name and
\* address, status 'online' and lastActivity the time of the registration; its
\* type is the supplied device type for a socket registration and 'ftp-only',
\* whatever was supplied, for the HTTP one; a field not supplied gets its
\* default ('Unknown Device', 'unknown', null).
C15_RecordAsSuppliedTypeBySocketOnly ==
    [][ RegistrationStep
          => /\ \A s \in SocketIds, data \in RegPayloads :
                   (\E u \in Uuids : Register(s, data, u) \/ RegisterDevice(s, data, u))
                      => /\ OneRecordWith(data.deviceName, data.deviceType, data.ipAddress)
                         /\ SuppliedOrGenerated(data.deviceId)
                         /\ LET rec == GetDevice(devices', EffectiveId)
                            IN  /\ data.deviceName = "" => rec.name = "Unknown Device"
                                /\ data.deviceType = "" => rec.type = "unknown"
                                /\ data.ipAddress = "" => rec.ipAddress = "null"
                                /\ rec.socketId = s
             /\ \A body \in FtpBodies :
                   FtpRegister(body)
                      => /\ OneRecordWith(body.deviceName, "", body.ipAddress)
                         /\ EffectiveId = body.deviceId
                         /\ LET rec == GetDevice(devices', EffectiveId)
                            IN  /\ rec.type = "ftp-only"
                                /\ body.deviceName = "" => rec.name = "Unknown Device"
                                /\ rec.socketId = NullSocket ]_vars

\* C15 witness: dev-1 registered on a socket as an android device, and then
\* through HTTP with deviceType android: the one record of dev-1 is 'ftp-only'
C15_Witness_HttpAfterSocket ==
    /\ Len(registrations) = 2
    /\ registrations[1].deviceId = "dev-1"
    /\ registrations[1].socketId \in SocketIds
    /\ registrations[2] = Registered("dev-1", NullSocket)
    /\ Len(devices) = 1
    /\ devices[1].id = "dev-1"
    /\ devices[1].type = "ftp-only"
    /\ devices[1].name = "Pixel"
    /\ devices[1].lastActivity = now
    /\ now > StartTime
    /\ Len(outbox) = 2

\* the registrations of this deviceId so far
RegistrationsOf(deviceId) ==
    { i \in 1..Len(registrations) : registrations[i].deviceId = deviceId }

\* deviceId was registered from connection a and, last of all, from connection b
SupersededBy(deviceId, a, b) ==
    LET idx == RegistrationsOf(deviceId)
    IN  /\ idx # {}
        /\ registrations[CHOOSE i \in idx : \A j \in idx : j <= i].socketId = b
        /\ \E i \in idx : registrations[i].socketId = a

RelayEvents == {"offer", "answer", "ice-candidate"}

\* this step is the relay of a signaling event addressed to this deviceId
RelayStep(deviceId) ==
    \E s \in SocketIds, ev \in RelayEvents, p \in SignalPayloads :
        Relay(s, ev, deviceId, p)

\* C16 as claimed: once a deviceId registered from connection A has been
\* registered from connection B, every offer, answer or ice-candidate addressed
\* to it while B is connected and B's registration is the latest is sent to B,
\* and to B only.
C16_Claimed_RelayedToNewHandle ==
    [][ \A d \in RelayTargets : \A a \in SocketIds : \A b \in SocketIds :
          (/\ a # b
           /\ SupersededBy(d, a, b)
           /\ b \in sockets
           /\ RelayStep(d))
             => /\ Len(outbox') = 1
                /\ outbox'[1].to = b ]_vars

\* this step is the disconnect of socket s
DisconnectStep(s) == s \in sockets /\ s \notin sockets'

\* C17 as claimed: the disconnect of a connection removes no record whose
\* socketId is another connection, or none.
C17_Claimed_DisconnectSparesOthers ==
    [][ \A s \in SocketIds :
          DisconnectStep(s)
             => \A i \in 1..Len(devices) :
                   devices[i].socketId # s => HasDevice(devices', devices[i].id) ]_vars

\* this step is a ping on socket s
PingStep(s) ==
    /\ Len(outbox') = 1
    /\ outbox'[1].event = "pong"
    /\ outbox'[1].to = s
    /\ Ping(s)

\* C18 as claimed: a ping on a connection that has registered a device, whose
\* record is still that connection's, is answered with a pong and sets the
\* record's lastActivity to the time of the ping.
C18_Claimed_PingRefreshesActivity ==
    [][ \A s \in SocketIds :
          (/\ PingStep(s)
           /\ socketDeviceId[s] # ""
           /\ HasDevice(devices, socketDeviceId[s])
           /\ GetDevice(devices, socketDeviceId[s]).socketId = s)
             => /\ HasDevice(devices', socketDeviceId[s])
                /\ GetDevice(devices', socketDeviceId[s]).lastActivity = now ]_vars

\* the device was last active more than DEVICE_TTL before t
Stale(d, t) == t - d.lastActivity > DEVICE_TTL

\* C19: when the registry holds at most MAX_DEVICES records, a run of
\* cleanupStaleDevices removes the records with now - lastActivity > DEVICE_TTL
\* and no other, and leaves the others as they were, in their order.
C19_SweepRemovesExactlyStale ==
    [][ (SweepStep /\ Len(devices) <= MAX_DEVICES)
          => /\ \A i \in 1..Len(devices) :
                   IF Stale(devices[i], now)
                   THEN ~HasDevice(devices', devices[i].id)
                   ELSE \E j \in 1..Len(devices') : devices'[j] = devices[i]
             /\ \A j \in 1..Len(devices') :
                   \E i \in 1..Len(devices) : devices[i] = devices'[j]
             /\ \A j \in 1..Len(devices') : \A k \in 1..Len(devices') :
                   devices'[j].id = devices'[k].id => j = k ]_vars

\* the cleanup of this instant has run
Swept == nextCleanup = now + CLEANUP_INTERVAL

\* C19 witness: of MAX_DEVICES records one was removed by the cleanup and the
\* others are kept, one of them of age DEVICE_TTL exactly
C19_Witness_OneStaleRemoved ==
    /\ Swept
    /\ Len(devices) = MAX_DEVICES - 1
    /\ HasDevice(devices, IdOf(MAX_DEVICES))
    /\ \E i \in 1..Len(devices) : now - devices[i].lastActivity = DEVICE_TTL

\* C20: after a run of cleanupStaleDevices the registry holds at most
\* MAX_DEVICES records, and a record that was removed though it was not stale
\* was last active no later than every record that is kept.
C20_CapacityEvictsOldest ==
    [][ SweepStep
          => /\ Len(devices') <= MAX_DEVICES
             /\ \A i \in 1..Len(devices) :
                   (~Stale(devices[i], now) /\ ~HasDevice(devices', devices[i].id))
                      => \A j \in 1..Len(devices') :
                            devices[i].lastActivity <= devices'[j].lastActivity ]_vars

\* C20 witness: of MAX_DEVICES + 2 records the cleanup has kept MAX_DEVICES,
\* among them one of the two with an age of their own (it was active at this
\* very instant), so that a record active a minute ago was evicted for capacity
C20_Witness_EvictedForCapacity ==
    /\ Swept
    /\ Len(devices) = MAX_DEVICES
    /\ HasDevice(devices, IdOf(MAX_DEVICES + 2))
    /\ ~HasDevice(devices, IdOf(3))
    /\ \E i \in 1..Len(devices) : devices[i].lastActivity = now


\* the step changed which device ids have a record in the registry
RegistryChanged == DeviceKeys(devices') # DeviceKeys(devices)

\* the step published the 'devices' list of the registry it left behind
DevicesPublished ==
    \E i \in 1..Len(outbox') : outbox'[i] = broadcastDeviceList(devices')

\* C21 as claimed: every step that changes the set of registry records, the
\* eviction by the periodic sweep included, publishes a 'devices' broadcast to
\* all observers carrying the projection of the registry after the change.
C21_Claimed_EveryChangeBroadcast ==
    [][RegistryChanged => DevicesPublished]_vars


\* the connected sockets that receive a message: all of them for a broadcast,
\* the addressed one when it is connected, none when the address is no socket
Recipients(m) ==
    IF m.to = "*" THEN sockets' ELSE {m.to} \cap sockets'

\* the record has a handle to push to: its socketId is a socket, not null
PushCapable(rec) == rec.socketId # NullSocket

\* this step sent a signaling message
SignalSent ==
    \E i \in 1..Len(outbox') : outbox'[i].event \in RelayEvents

\* C22: an offer, answer or ice-candidate from socket s for target d sends
\* exactly one message, with the payload received and fromDeviceId the id s
\* registered under, to the socketId of d's record when that record has one,
\* and reaches no other socket; when d has no record, or a record without a
\* socketId, no socket receives anything; a step that sends a signaling message
\* leaves the registry and the pending table as they were.
C22_RelayToTargetHandleOnly ==
    [][ /\ \A s \in SocketIds, ev \in RelayEvents, d \in RelayTargets,
              p \in SignalPayloads :
              Relay(s, ev, d, p)
                 => IF HasDevice(devices, d) /\ PushCapable(GetDevice(devices, d))
                    THEN /\ outbox' = << [to |-> GetDevice(devices', d).socketId,
                                          event |-> ev,
                                          fromDeviceId |-> socketDeviceId[s],
                                          payload |-> p] >>
                         /\ Recipients(outbox'[1])
                               \subseteq {GetDevice(devices', d).socketId}
                    ELSE \A i \in 1..Len(outbox') : Recipients(outbox'[i]) = {}
        /\ SignalSent
              => /\ devices' = devices
                 /\ pendingRequests' = pendingRequests
                 /\ calls' = calls ]_vars

\* C22 witness: a registered device's signaling event has just been sent to the
\* connected socket of another registered device.
C22_Witness_RelayedToPeer ==
    /\ Len(outbox) = 1
    /\ outbox[1].event \in RelayEvents
    /\ outbox[1].to \in sockets
    /\ outbox[1].fromDeviceId # ""
    /\ outbox[1].payload = "sdp-2"
    /\ \E i \in 1..Len(devices) :
          /\ devices[i].socketId = outbox[1].to
          /\ devices[i].id # outbox[1].fromDeviceId


\* this step is a call of startMirroring: its last output is the value returned
MirrorStep ==
    /\ Len(outbox') >= 1
    /\ outbox'[Len(outbox')].event = "return"

\* this step sent REQUEST_MIRROR to a socket that is connected
MirrorRequested ==
    \E i \in 1..Len(outbox') :
        /\ outbox'[i].event = "REQUEST_MIRROR"
        /\ outbox'[i].to \in sockets'

\* C23 as claimed: startMirroring returns true exactly when it sent
\* REQUEST_MIRROR to a connected socket of the device, and false otherwise, in
\* particular for a device whose record has no socketId.
C23_Claimed_TrueIffRequestSent ==
    [][MirrorStep => (outbox'[Len(outbox')].value <=> MirrorRequested)]_vars


\* C24: the disconnect of a socket leaves the pending table and every request
\* as they were: no entry is removed, no promise is settled, no response is
\* written or ended, whichever device the request was sent to.
C24_DisconnectLeavesPending ==
    [][ \A s \in SocketIds :
          DisconnectStep(s)
             => /\ pendingRequests' = pendingRequests
                /\ calls' = calls ]_vars

\* C24 witness: a socket has just disconnected, its record is gone, and a
\* request that was sent to it is still in the pending table, unsettled.
C24_Witness_PendingAfterDisconnect ==
    /\ Len(outbox) = 1
    /\ outbox[1].event = "devices"
    /\ \E r \in 1..Len(calls) :
          /\ calls[r].to \in closedSockets
          /\ ~HasDevice(devices, calls[r].deviceId)
          /\ Has(pendingRequests, calls[r].requestId)
          /\ calls[r].ended = 0
          /\ calls[r].promise \in {"pending", "none"}


\* the body of a POST /api/ftp/register that lacks deviceId or ipAddress
Incomplete(body) == body.deviceId = "" \/ body.ipAddress = ""

\* C25: a POST /api/ftp/register whose body lacks deviceId or ipAddress is
\* answered 400 'deviceId and ipAddress are required' and nothing else happens:
\* the registry is as it was and no 'devices' list is broadcast.
C25_IncompleteRegistrationIs400 ==
    [][ \A body \in FtpBodies :
          (Incomplete(body) /\ FtpRegister(body))
             => /\ outbox' = << HttpReply(400, "deviceId and ipAddress are required") >>
                /\ devices' = devices
                /\ registrations' = registrations
                /\ \A i \in 1..Len(outbox') : outbox'[i].event # "devices" ]_vars

\* C25 witness: a registration without ipAddress has just been refused while
\* the registry holds records, one of them stored by an earlier HTTP
\* registration.
C25_Witness_RefusedWithRecords ==
    /\ outbox = << HttpReply(400, "deviceId and ipAddress are required") >>
    /\ Len(registrations) >= 1
    /\ \E i \in 1..Len(devices) : devices[i].socketId = NullSocket
    /\ \E i \in 1..Len(devices) : devices[i].socketId # NullSocket


\* this step is a successful POST /api/ftp/register for this deviceId
HttpRegistrationStep(deviceId) ==
    /\ Len(registrations') = Len(registrations) + 1
    /\ registrations'[Len(registrations')] = Registered(deviceId, NullSocket)

\* C26 as claimed: a POST /api/ftp/register for a deviceId whose record has the
\* socketId of a connected socket leaves that socketId in the record, so that
\* signaling, browse and download to the device keep working.
C26_Claimed_HttpKeepsSocketHandle ==
    [][ \A d \in DeviceIds :
          (/\ HasDevice(devices, d)
           /\ GetDevice(devices, d).socketId \in sockets
           /\ HttpRegistrationStep(d))
             => /\ HasDevice(devices', d)
                /\ GetDevice(devices', d).socketId = GetDevice(devices, d).socketId ]_vars


\* the entry was last updated more than MONITORED_APPS_TTL before t
StaleApps(a, t) == t - a.lastUpdate > MONITORED_APPS_TTL

\* the entry is no longer among the monitored apps
AppsGone(apps, a) == \A j \in 1..Len(apps) : apps[j].key # a.key

\* C27: in every run of the periodic cleanup, after cleanupMonitoredApps no
\* monitored-apps entry is older than MONITORED_APPS_TTL and at most
\* MAX_MONITORED_APPS remain; the entries kept are entries that were there,
\* unchanged; an entry removed though it was not stale was last updated no
\* later than every entry kept.  cleanupMonitoredApps leaves the registry, the
\* pending table and the calls as it found them, cleanupStaleDevices leaves
\* the monitored apps as it found them, and what cleanupMonitoredApps has made
\* of the monitored apps is what the run leaves.
C27_AppsSweepBounded ==
    [][ SweepStep
          => LET run == CleanupStages(CleanupStore, now)
                 kept == run.appsDone.monitoredApps
             IN  /\ \A j \in 1..Len(kept) : ~StaleApps(kept[j], now)
                 /\ Len(kept) <= MAX_MONITORED_APPS
                 /\ \A j \in 1..Len(kept) :
                       \E i \in 1..Len(monitoredApps) : monitoredApps[i] = kept[j]
                 /\ \A i \in 1..Len(monitoredApps) :
                       (/\ ~StaleApps(monitoredApps[i], now)
                        /\ AppsGone(kept, monitoredApps[i]))
                          => \A j \in 1..Len(kept) :
                                monitoredApps[i].lastUpdate <= kept[j].lastUpdate
                 /\ run.appsDone.devices = run.devicesDone.devices
                 /\ run.appsDone.pendingRequests = run.devicesDone.pendingRequests
                 /\ run.appsDone.calls = run.devicesDone.calls
                 /\ run.devicesDone.monitoredApps = monitoredApps
                 /\ monitoredApps' = kept ]_vars

\* C27 witness: the cleanup has cut more than MAX_MONITORED_APPS entries down
\* to MAX_MONITORED_APPS, removing the third inserted and keeping entry
\* MAX_MONITORED_APPS + 2 and an entry written at this very instant; the
\* registry and the pending browse are still there.
C27_Witness_AppsEvicted ==
    /\ Swept
    /\ Len(monitoredApps) = MAX_MONITORED_APPS
    /\ ~AppsGone(monitoredApps, [key |-> IdOf(MAX_MONITORED_APPS + 2)])
    /\ AppsGone(monitoredApps, [key |-> IdOf(3)])
    /\ \E i \in 1..Len(monitoredApps) : monitoredApps[i].lastUpdate = now
    /\ Len(devices) = 2
    /\ DOMAIN pendingRequests # {}


\* call r differs from what it was in its timer only
OnlyTimerFired(r) == calls'[r] = [calls[r] EXCEPT !.timer = "fired"]

\* C28: when the timer of download r fires and the id of r is in the pending
\* table, the entry is removed and the response of r is closed, for the first
\* and only time: with 500 'Request timeout' when nothing was written to it,
\* by ending it as it is otherwise.  When the id is not in the table the firing
\* changes neither the table nor the response.  No other request is touched.
C28_DownloadTimerClosesOnce ==
    [][ \A r \in 1..Len(calls) :
          (calls[r].kind = "download" /\ TimerStep(r))
             => /\ IF Has(pendingRequests, calls[r].requestId)
                   THEN /\ ~Has(pendingRequests', calls[r].requestId)
                        /\ calls[r].ended = 0
                        /\ calls'[r].ended = 1
                        /\ calls'[r].body = calls[r].body
                        /\ IF calls[r].writes = 0
                           THEN /\ calls'[r].statusCode = 500
                                /\ calls'[r].json = "Request timeout"
                           ELSE /\ calls'[r].statusCode = calls[r].statusCode
                                /\ calls'[r].json = calls[r].json
                   ELSE /\ pendingRequests' = pendingRequests
                        /\ OnlyTimerFired(r)
                /\ \A q \in 1..Len(calls) : q # r => calls'[q] = calls[q] ]_vars

\* C28 witness: a download that got a chunk and one that got none have both
\* been closed by their timers, the first ended as it was, the second answered
\* 500 'Request timeout'; neither is in the pending table.
C28_Witness_BothTimedOut ==
    /\ Len(calls) = 2
    /\ \A r \in 1..2 :
          /\ calls[r].kind = "download"
          /\ calls[r].timer = "fired"
          /\ calls[r].ended = 1
          /\ ~Has(pendingRequests, calls[r].requestId)
    /\ calls[1].requestId # calls[2].requestId
    /\ calls[1].writes = 1 /\ calls[1].statusCode = 200 /\ calls[1].json = ""
    /\ calls[2].writes = 0 /\ calls[2].statusCode = 500
    /\ calls[2].json = "Request timeout"


\* this step handled an ftp-list-response or an ftp-download-chunk
DeviceEventStep == events' = events + 1

\* C29 as claimed: every ftp-list-response and ftp-download-chunk the server
\* handles is sent once to all connected sockets, with the deviceId of a
\* connected sender, whether or not its requestId is pending.
C29_Claimed_AlwaysRepublished ==
    [][ DeviceEventStep
          => /\ Len(outbox') = 1
             /\ outbox'[1].to = "*"
             /\ outbox'[1].event \in {"ftp-list-response", "ftp-download-chunk"}
             /\ \E s \in sockets : outbox'[1].deviceId = socketDeviceId[s] ]_vars


\* the notifications of completed uploads this step emitted
Notifications ==
    { i \in 1..Len(outbox') : outbox'[i].event = "ftp-upload-complete" }

\* C30: an 'ftp-upload-complete' is emitted for an upload only in a step that
\* finds it renaming with its file moved out of the temporary directory
\* already (the file may since have been replaced by an upload of the same
\* name); a rename that fails leaves the file in the temporary directory,
\* emits no notification and throws the error to the tus server, and no upload
\* whose file is still in the temporary directory was ever notified; an upload
\* created without metadata.deviceId is refused by throwing and is not stored.
C30_NotifyOnlyAfterMove ==
    [][ /\ \A i \in Notifications :
              /\ outbox'[i].uploadId \in DOMAIN uploads
              /\ uploads[outbox'[i].uploadId].pc = "renaming"
              /\ uploads[outbox'[i].uploadId].at # "temp"
              /\ uploads'[outbox'[i].uploadId].at # "temp"
        /\ \A u \in UploadIds, io \in IoLookups :
              RenameSettled(u, FALSE, io)
                 => /\ Notifications = {}
                    /\ uploads'[u].at = "temp"
                    /\ \E i \in 1..Len(outbox') :
                          outbox'[i].event = "throw" /\ outbox'[i].uploadId = u
        /\ \A u \in DOMAIN uploads' : uploads'[u].at = "temp" => ~uploads'[u].notified
        /\ \A u \in UploadIds, m \in UploadMetadata :
              (m.deviceId = "" /\ UploadCreate(u, m, UploadSize))
                 => /\ uploads' = uploads
                    /\ outbox' = << Thrown(u, "deviceId is required in metadata") >> ]_vars

\* C30 witness: up-1 was moved and notified and is done; the rename of up-2
\* has just failed: its error is thrown, its file is still in the temporary
\* directory and it was not notified.
C30_Witness_MovedAndFailed ==
    /\ DOMAIN uploads = UploadIds
    /\ uploads["up-1"].pc = "done"
    /\ uploads["up-1"].at = "final"
    /\ uploads["up-1"].notified
    /\ uploads["up-2"].pc = "failed"
    /\ uploads["up-2"].at = "temp"
    /\ ~uploads["up-2"].notified
    /\ outbox = << Thrown("up-2", "rename") >>


\* the waiter of a pending entry is completed in these calls: the promise of a
\* browse entry is settled, the response of a download entry is closed
WaiterCompleted(entry, cs) ==
    /\ entry.resolve # Undefined => cs[entry.resolve].promise # "pending"
    /\ entry.response # Undefined => cs[entry.response].ended >= 1

\* C31 as claimed: every step that removes an id from pendingRequests, be it a
\* response, a chunk, a timer or the cleanup, completes the waiter of the entry
\* it removes in that same step.
C31_Claimed_NoWaiterOrphaned ==
    [][ \A id \in (DOMAIN pendingRequests) \ (DOMAIN pendingRequests') :
          WaiterCompleted(pendingRequests[id], calls') ]_vars


\* the id is pending for a browse (a single-value entry)
BrowseIdPending(id) == Has(pendingRequests, id) /\ pendingRequests[id].response = Undefined

\* the id is pending for a download (a streamed entry)
DownloadIdPending(id) == Has(pendingRequests, id) /\ pendingRequests[id].response # Undefined

\* this step is an ftp-list-response naming a pending download id, or an
\* ftp-download-chunk naming a pending browse id
CrossKindStep ==
    /\ DeviceEventStep
    /\ \/ \E s \in SocketIds, id \in EventIds, f \in FilesSet, e \in ErrorSet :
             DownloadIdPending(id) /\ FtpListResponse(s, id, f, e)
       \/ \E s \in SocketIds, id \in EventIds, c \in ChunkSet, l \in BOOLEAN,
             e \in ErrorSet :
             BrowseIdPending(id) /\ FtpDownloadChunk(s, id, c, l, e)

\* C32 as claimed: an event of the kind that does not match the pending entry
\* it names raises no exception and leaves the entry pending, with its waiter
\* and its timer as they were.
C32_Claimed_CrossKindHarmless ==
    [][ CrossKindStep
          => /\ ~crashed'
             /\ pendingRequests' = pendingRequests
             /\ calls' = calls ]_vars


\* this step is an ftp-list-response or an ftp-download-chunk that names this
\* id and arrives on socket s
EventFrom(s, id) ==
    \/ \E f \in FilesSet, e \in ErrorSet : FtpListResponse(s, id, f, e)
    \/ \E c \in ChunkSet, l \in BOOLEAN, e \in ErrorSet : FtpDownloadChunk(s, id, c, l, e)

\* C33 as claimed: a response or chunk event that carries the id of a pending
\* request but arrives on another socket than the one the request was sent to
\* changes neither the pending entry nor the request.
C33_Claimed_OnlyOwnConnection ==
    [][ DeviceEventStep
          => \A r \in 1..Len(calls) : \A s \in SocketIds :
                (/\ Has(pendingRequests, calls[r].requestId)
                 /\ SoleOwner(r)
                 /\ s # calls[r].to
                 /\ EventFrom(s, calls[r].requestId))
                   => /\ calls'[r] = calls[r]
                      /\ Has(pendingRequests', calls[r].requestId)
                      /\ pendingRequests'[calls[r].requestId]
                            = pendingRequests[calls[r].requestId] ]_vars


\* C34 as claimed: every registry record with a socketId has the socketId of a
\* socket that is connected; after a disconnect no record keeps the socketId
\* of the socket that went away.
C34_Claimed_HandlesAreLive ==
    \A i \in 1..Len(devices) :
        devices[i].socketId # NullSocket => devices[i].socketId \in sockets


\* C35 as claimed: a device whose socket stays connected and sends a 'ping' at
\* every clock step, less than DEVICE_TTL apart, keeps its record in the
\* registry: the periodic cleanup never removes it.
C35_Claimed_PingKeepsRecord ==
    \A s \in sockets :
        socketDeviceId[s] # "" => HasDevice(devices, socketDeviceId[s])

\* C36: in every reachable state every record of the registry has status
\* 'online' and is stored under its own id; and when a socket goes away the
\* record under its deviceId is removed from the registry, not kept and
\* marked.
C36_OnlineUnderOwnId ==
    /\ [](\A i \in 1..Len(devices) :
             /\ devices[i].status = "online"
             /\ devices[i].key = devices[i].id)
    /\ [][ \A s \in sockets \ sockets' :
              socketDeviceId[s] # "" => ~HasDevice(devices', socketDeviceId[s]) ]_vars

\* a socket that registered a device has gone away and its record is gone,
\* while a record stored by POST /api/ftp/register and a record of a socket
\* that is still connected remain
C36_Witness_GoneAndRemaining ==
    /\ \E s \in closedSockets :
          /\ socketDeviceId[s] # ""
          /\ ~HasDevice(devices, socketDeviceId[s])
    /\ \E i \in 1..Len(devices) : devices[i].socketId = NullSocket
    /\ \E i \in 1..Len(devices) : devices[i].socketId \in sockets

====
